---- MODULE Spec2Model ----
(***************************************************************************)
(* Edge data collector for the MCC128 board: the acquisition runner, the   *)
(* session that hosts it on a worker thread, the session manager of the    *)
(* control plane, and the InfluxDB sink with its bounded queue.            *)
(*                                                                         *)
(* The specifications of this module, one per component or scenario:       *)
(*   SpecInflux       InfluxSender: producer enqueue path and batching     *)
(*                    worker; FairSpecInflux adds thread scheduling        *)
(*   SpecSend         one call of InfluxSender._send_with_retries          *)
(*   SpecFiles        one CSVSink or FTPSink: open, handle_sample, close   *)
(*   SpecRunner       AcquisitionRunner.run on the session's thread, with  *)
(*                    request_stop() arriving at any moment                *)
(*   SpecDispatch     the same run() with sinks whose handle_sample may    *)
(*                    raise                                                *)
(*   SpecSession      one AcquisitionSession: the thread wrapper around    *)
(*                    run(), PreviewQueue with the event loop, and stop()  *)
(*   FairSpecPreview  a preview session with a subscriber reading its      *)
(*                    queue, the event loop scheduled                      *)
(*   SpecManager      AcquisitionSessionManager: start_session and         *)
(*                    stop_session over successive sessions;               *)
(*                    FairSpecManager schedules the thread of stop()       *)
(*   SpecSubscribers  the manager with preview streams acquiring and       *)
(*                    releasing the queue                                  *)
(*   SpecTestMode     run() in test mode: blocks go to the preview         *)
(*                    channel, no sink is built                            *)
(*   SpecPreviewQueue PreviewQueue alone: put_nowait, close and the event  *)
(*                    loop running the queued puts                         *)
(*   SpecCsv          one CSVSink fed samples of varying columns, headers  *)
(*                    enabled or not                                       *)
(*   FairSpecStream   stream_preview reading a preview channel, with an    *)
(*                    optional max_duration_s                              *)
(*   SpecLoad         StationConfig.from_mapping on a station file, then   *)
(*                    start_scan of the loaded station                     *)
(*   SpecLine         sample_to_line on the samples the runner builds      *)
(*   SpecBackoff      InfluxSender._compute_backoff over the retry         *)
(*                    settings                                             *)
(*   SpecStatus       the manager with one GET /acquisition/session, its   *)
(*                    two manager calls apart                              *)
(* Each specification leaves the variables of the other components at      *)
(* their initial values.                                                   *)
(*                                                                         *)
(* A test of a flag followed by its assignment ("if self._closed: return;  *)
(* self._closed = True", "if self._status == 'running': ...") is one step: *)
(* the interpreter switches threads only at calls and loop back-edges.     *)
(***************************************************************************)
EXTENDS Integers, Sequences, FiniteSets, TLC

\* ------------------------------------------------------------------------
\* Bounds of the model
\* ------------------------------------------------------------------------
\* Largest queue_max_size explored (settings.queue_max_size >= 1).
MaxQueueSize == 3
\* Largest batch_size explored (settings.batch_size >= 1).
MaxBatch == 2
\* Number of lines the producer hands to enqueue().
MaxLines == 5

\* Python's None for optional integer settings.
NoneVal == -1

VARIABLES
    \* ---- InfluxSender ----
    queue_max_size,   \* settings.queue_max_size
    batch_size,       \* settings.batch_size
    q,                \* self.q: the bounded FIFO of lines
    stop,             \* self.stop
    enq_pc,           \* producer position inside enqueue()
    enq_line,         \* the line enqueue() is trying to put
    produced,         \* number of lines handed to enqueue() so far
    w_pc,             \* worker thread position
    lines,            \* the worker's local batch (_drain_batch / _send_with_retries)
    dropped,          \* lines lost by the overflow policy, in order of loss
    enq_start,        \* the queue as the current enqueue() call found it
    enq_touched,      \* the worker dequeued while the current enqueue() call ran
    enq_warnings,     \* logger.warning calls made by the current enqueue() call
    enq_steps,        \* put_nowait / get_nowait calls made by the current enqueue() call
    sent,             \* lines of the batches _send_with_retries reported sent
    failed,           \* lines of the batches _send_with_retries reported failed
    close_queue,      \* the queue as close() found it when it set self.stop
    close_returned    \* close() has returned

influxVars == <<queue_max_size, batch_size, q, stop, enq_pc, enq_line,
                produced, w_pc, lines, dropped, enq_start, enq_touched,
                enq_warnings, enq_steps, sent, failed, close_queue, close_returned>>

VARIABLES
    \* ---- one AcquisitionSession: settings snapshot ----
    preview_enabled,     \* AcquisitionSession.preview_enabled
    mode,                \* AcquisitionSession.mode, the requested mode
    total_samples,       \* settings.total_samples (NoneVal or > 0)
    duration_ns,         \* int(settings.duration_s * 1e9) (NoneVal or > 0)
    drift_threshold_ns,  \* drift_detection.correction_threshold_ns (NoneVal or >= 0)
    ts_step,             \* int(1e9 / sample_rate_hz)
    n_channels,          \* len(station.channels)
    n_sinks,             \* number of sinks the sink factory returns
    block_size,          \* settings.block_size, the most a read returns
    raising_sinks,       \* the sinks of the factory whose handle_sample may raise
    \* ---- AcquisitionRunner ----
    pc,                  \* position of the session's worker thread
    stop_requested,      \* runner._stop_requested
    test_mode_active,    \* runner._test_mode_active
    active_sinks,        \* runner._active_sinks
    sink_open,           \* per sink: "no", "ok" (open() returned), "failed" (open() raised)
    sink_closed,         \* per sink: number of close() calls
    sink_rx,             \* per sink: the samples <<channel, timestamp_ns>> handled
    sink_faults,         \* per sink: samples handled when handle_sample first raised, 0 if never
    factory_calls,       \* number of calls of the sink factory
    board,               \* "none", or "open" once open_mcc128() returned
    scan_stops,          \* calls of board.a_in_scan_stop()
    scan_cleanups,       \* calls of board.a_in_scan_cleanup()
    now,                 \* the wall clock read by time_ns()
    next_ts_ns,          \* timestamp of the next sample
    deadline_ns,         \* acquisition_deadline_ns
    remaining_samples,   \* remaining_samples
    consumed,            \* samples per channel timestamped so far
    blocks_broadcast,    \* runner._test_blocks_broadcast
    last_read,           \* the read in progress or just handled: [len, delivered, stop_pending]
    timeout_seen,        \* a read of this run returned with the driver's timeout flag set
    raised,              \* "none" or the exception leaving run()
    exit_reason,         \* how the scan loop was left
    \* ---- AcquisitionSession thread wrapper and stop() ----
    status,              \* session._status
    error,               \* session._error
    finished_at,         \* session.finished_at is set
    stop_event,          \* session._stop_event
    s_pc,                \* position of the thread executing session.stop()
    \* ---- PreviewQueue ----
    pq_closed,           \* PreviewQueue._closed
    pq_pending,          \* callbacks handed to loop.call_soon_threadsafe, FIFO
    pq_queue,            \* PreviewQueue._queue (asyncio.Queue)
    pq_sentinels,        \* number of None items put into _queue so far
    pq_received,         \* the subscriber's stream_preview got None from the queue
    pq_evicted           \* the items _put removed from the full queue, in order

cfgVars == <<preview_enabled, mode, total_samples, duration_ns,
             drift_threshold_ns, ts_step, n_channels, n_sinks, block_size,
             raising_sinks>>
sinkVars == <<active_sinks, sink_open, sink_closed, sink_rx, sink_faults, factory_calls>>
boardVars == <<board, scan_stops, scan_cleanups>>
loopVars == <<now, next_ts_ns, deadline_ns, remaining_samples, consumed, blocks_broadcast,
              last_read, timeout_seen>>
exitVars == <<raised, exit_reason>>
sessVars == <<status, error, finished_at, stop_event>>
pqVars == <<pq_closed, pq_pending, pq_queue, pq_sentinels, pq_received, pq_evicted>>
runnerVars == <<cfgVars, pc, stop_requested, test_mode_active, sinkVars,
                boardVars, loopVars, exitVars, sessVars, s_pc, pqVars>>

VARIABLES
    \* ---- AcquisitionSessionManager ----
    m_session,        \* manager._session: 0 (None) or the number of a session
    m_last_summary,   \* manager._last_summary: NoSummary or a session.info()
    m_lock,           \* manager._lock: "free", or the step of the stop_session holding it
    m_created,        \* sessions constructed so far (calls of the runner factory)
    m_sessions,       \* every session constructed, by number
    m_resp            \* the last response of the control plane: [op, code]

mgrVars == <<m_session, m_last_summary, m_lock, m_created, m_sessions, m_resp>>

VARIABLES
    \* ---- InfluxSender._send_with_retries, one call ----
    max_attempts,     \* settings.retry.max_attempts (>= 1)
    attempt,          \* the loop variable of "for attempt in range(1, max_attempts + 1)"
    responses,        \* what each session.post so far gave: a status code, or RequestException
    sleeps,           \* calls of self._sleep
    send_result       \* "none" while the call runs, then "true" or "false"

sendVars == <<max_attempts, attempt, responses, sleeps, send_result>>

VARIABLES
    \* ---- CSVSink, alone or inside an FTPSink ----
    fs_kind,          \* the sink the runner holds: "csv" (CSVSink) or "ftp" (FTPSink)
    ftp_host,         \* FTPSink.settings.host is set
    ftp_periodic,     \* FTPSink.settings.rotation == "periodic" with an interval
    csv_files,        \* CSVSink._files / _writers: the rotation keys with an open file
    csv_paths,        \* CSVSink._paths: the rotation keys whose file was ever opened,
                      \* in the order the dict holds them
    csv_headers,      \* CSVSink._headers: the rotation keys whose header is stored
    csv_ops,          \* operations on file handles so far (writerow, flush, close)
    ftp_uploads,      \* upload passes so far, each with the files it listed and the
                      \* files whose transfer it started
    fs_samples,       \* handle_sample calls so far
    fs_closes,        \* close() calls so far
    fs_last,          \* the last call made on the sink: "none", "open", "sample" or "close"
    csv_write_headers,  \* CSVSink.settings.write_headers
    csv_stored,       \* CSVSink._headers: for each key the stored header, <<>> if none
    csv_rows,         \* for each key the rows written to its file, in order
    fs_fields         \* the sets of optional columns the samples of this run may carry

fileVars == <<fs_kind, ftp_host, ftp_periodic, csv_files, csv_paths, csv_headers, csv_ops,
              ftp_uploads, fs_samples, fs_closes, fs_last, csv_write_headers, csv_stored,
              csv_rows, fs_fields>>

VARIABLES
    \* ---- stream_preview, one call ----
    st_max,           \* opts.max_duration_s * 1e9, or NoneVal when not set
    st_down,          \* opts.normalized_downsample()
    st_queue,         \* the items in the asyncio queue, oldest first
    st_puts,          \* items put on the queue so far
    st_pc,            \* "get" (awaiting queue.get), "yielded" (suspended at yield), "done"
    st_start,         \* start_ts_ns, or NoneVal
    st_last,          \* the timestamps of the frame yielded last, <<>> before any
    st_first,         \* the first timestamp ever emitted, or NoneVal
    st_frames,        \* frames yielded so far
    st_end            \* why the loop was left: "none", "sentinel" or "duration"

streamVars == <<st_max, st_down, st_queue, st_puts, st_pc, st_start, st_last, st_first,
                st_frames, st_end>>

VARIABLES
    \* ---- load_station_config and the session started with its result ----
    ld_rate,          \* acquisition.sample_rate_hz of the file
    ld_block,         \* acquisition.block_size of the file
    ld_channels,      \* channels of the file: a sequence of [index, range]
    ld_result,        \* "none", "loaded" (a StationConfig) or "rejected" (ValueError)
    ld_session        \* the session started with it: "none", "started", "scanning",
                      \* "finished" or "failed"

loadVars == <<ld_rate, ld_block, ld_channels, ld_result, ld_session>>

VARIABLES
    \* ---- one sample of the runner on its way to the InfluxDB line ----
    ln_sample,        \* what _handle_block has at hand: station, channel, value, timestamp
    ln_done,          \* sample_to_line has returned
    ln_line           \* the line: measurement, tags, fields and timestamp in order

lineVars == <<ln_sample, ln_done, ln_line>>

VARIABLES
    \* ---- InfluxSender._compute_backoff ----
    base_backoff,     \* self.base_backoff = settings.retry.base_delay_s
    max_backoff,      \* self.max_backoff = settings.retry.max_backoff_s, or None
    bk_attempt,       \* the attempt of the last call, 0 before any call
    bk_jitter,        \* what random.uniform returned in the last call
    bk_total          \* the delay the last call returned

backoffVars == <<base_backoff, max_backoff, bk_attempt, bk_jitter, bk_total>>

VARIABLES
    \* ---- GET /acquisition/session, one request ----
    gs_pc,            \* "idle", "between" the two manager calls, "done"
    gs_created,       \* sessions constructed when current_session() was called
    gs_resp           \* the response: [active, info]

statusVars == <<gs_pc, gs_created, gs_resp>>

vars == <<influxVars, runnerVars, mgrVars, sendVars, fileVars, streamVars, loadVars, lineVars, backoffVars, statusVars>>

\* The variables of the other components, which no action of a component
\* touches.
notInfluxVars == <<runnerVars, mgrVars, sendVars, fileVars, streamVars, loadVars, lineVars, backoffVars, statusVars>>
notRunnerVars == <<influxVars, mgrVars, sendVars, fileVars, streamVars, loadVars, lineVars, backoffVars, statusVars>>
notManagerVars == <<influxVars, runnerVars, sendVars, fileVars, streamVars, loadVars, lineVars, backoffVars, statusVars>>
notSendVars == <<influxVars, runnerVars, mgrVars, fileVars, streamVars, loadVars, lineVars, backoffVars, statusVars>>
notFileVars == <<influxVars, runnerVars, mgrVars, sendVars, streamVars, loadVars, lineVars, backoffVars, statusVars>>
notStreamVars == <<influxVars, runnerVars, mgrVars, sendVars, fileVars, loadVars, lineVars, backoffVars, statusVars>>
notLoadVars == <<influxVars, runnerVars, mgrVars, sendVars, fileVars, streamVars, lineVars, backoffVars, statusVars>>
notLineVars == <<influxVars, runnerVars, mgrVars, sendVars, fileVars, streamVars, loadVars, backoffVars, statusVars>>
notBackoffVars == <<influxVars, runnerVars, mgrVars, sendVars, fileVars, streamVars, loadVars, lineVars, statusVars>>
notStatusVars == <<influxVars, runnerVars, mgrVars, sendVars, fileVars, streamVars, loadVars, lineVars, backoffVars>>
notManagerStatusVars == <<influxVars, runnerVars, sendVars, fileVars, streamVars, loadVars, lineVars, backoffVars>>

\* ========================================================================
\* InfluxSender (src/edge/scr/sinks/influx.py)
\* ========================================================================

\* Mutant of Full: the capacity test is off by one.
Full_OffByOne(qq) == Len(qq) > queue_max_size

\* queue.Queue(maxsize=settings.queue_max_size): put_nowait raises queue.Full
\* exactly when the queue holds maxsize items.
Full(qq) == Len(qq) >= queue_max_size

\* Mutant of Evict: get_nowait leaves the queue as it was.
Evict_KeepsHead(qq) == qq

\* Mutant of Evict: the newest line is removed instead of the oldest.
Evict_Newest(qq) == SubSeq(qq, 1, Len(qq) - 1)

\* self.q.get_nowait() / self.q.get(): the queue without its head.
Evict(qq) == Tail(qq)

\* Mutant of AfterSend: a batch whose send failed goes back to the queue.
AfterSend_Requeue(qq, batch, success) == IF success THEN qq ELSE qq \o batch

\* _worker after _send_with_retries: the queue is not touched, whatever the
\* result; a failed batch is only logged.
AfterSend(qq, batch, success) == qq

\* Mutant of AfterEmptyEvict: the put is retried on the emptied queue.
AfterEmptyEvict_Retries(qq, line) == Append(qq, line)

\* _put_with_overflow_policy when _drop_oldest returned False: the error is
\* logged and the loop is left without another put_nowait.
AfterEmptyEvict(qq, line) == qq

\* Mutant of BatchOpen: the drain takes one line more than batch_size.
BatchOpen_OneMore(batch) == Len(batch) <= batch_size

\* _drain_batch: the test of "while len(lines) < self.batch_size".
BatchOpen(batch) == Len(batch) < batch_size

InitInflux ==
    /\ queue_max_size \in 1..MaxQueueSize
    /\ batch_size \in 1..MaxBatch
    /\ q = <<>>
    /\ stop = FALSE
    /\ enq_pc = "idle"
    /\ enq_line = 0
    /\ produced = 0
    /\ w_pc = "loop"
    /\ lines = <<>>
    /\ dropped = <<>>
    /\ enq_start = <<>>
    /\ enq_touched = FALSE
    /\ enq_warnings = 0
    /\ enq_steps = 0
    /\ sent = <<>>
    /\ failed = <<>>
    /\ close_queue = <<>>
    /\ close_returned = FALSE

\* The sink untouched, for the specifications of the other components.
IdleInflux ==
    /\ queue_max_size = 1
    /\ batch_size = 1
    /\ q = <<>>
    /\ stop = FALSE
    /\ enq_pc = "idle"
    /\ enq_line = 0
    /\ produced = 0
    /\ w_pc = "loop"
    /\ lines = <<>>
    /\ dropped = <<>>
    /\ enq_start = <<>>
    /\ enq_touched = FALSE
    /\ enq_warnings = 0
    /\ enq_steps = 0
    /\ sent = <<>>
    /\ failed = <<>>
    /\ close_queue = <<>>
    /\ close_returned = FALSE

\* handle_sample -> enqueue(line) -> _queue_lines([line]): the first
\* put_nowait; queue.Full sends the line to _handle_queue_full.
Enqueue ==
    /\ enq_pc = "idle"
    /\ produced < MaxLines
    /\ produced' = produced + 1
    /\ enq_start' = q
    /\ enq_touched' = FALSE
    /\ enq_warnings' = 0
    /\ enq_steps' = 1
    /\ IF Full(q)
         THEN /\ enq_pc' = "put"
              /\ enq_line' = produced + 1
              /\ q' = q
         ELSE /\ q' = Append(q, produced + 1)
              /\ enq_pc' = "idle"
              /\ enq_line' = 0
    /\ UNCHANGED <<notInfluxVars, close_queue, close_returned, queue_max_size, batch_size, stop, w_pc, lines, dropped,
                   sent, failed>>

\* _put_with_overflow_policy: one put_nowait of the loop.
PutWithOverflowPolicy ==
    /\ enq_pc = "put"
    /\ enq_steps' = enq_steps + 1
    /\ IF Full(q)
         THEN /\ enq_pc' = "drop"
              /\ UNCHANGED <<q, enq_line>>
         ELSE /\ q' = Append(q, enq_line)
              /\ enq_pc' = "idle"
              /\ enq_line' = 0
    /\ UNCHANGED <<notInfluxVars, close_queue, close_returned, queue_max_size, batch_size, stop, produced, w_pc, lines,
                   dropped, enq_start, enq_touched, enq_warnings, sent, failed>>

\* _drop_oldest: get_nowait evicts the head and the loop retries the put; on
\* queue.Empty the pending line is dropped and enqueue returns. Either way
\* one warning is logged.
DropOldest ==
    /\ enq_pc = "drop"
    /\ enq_steps' = enq_steps + 1
    /\ enq_warnings' = enq_warnings + 1
    /\ IF q # <<>>
         THEN /\ q' = Evict(q)
              /\ dropped' = Append(dropped, Head(q))
              /\ enq_pc' = "put"
              /\ enq_line' = enq_line
         ELSE /\ q' = AfterEmptyEvict(q, enq_line)
              /\ dropped' = Append(dropped, enq_line)
              /\ enq_pc' = "idle"
              /\ enq_line' = 0
    /\ UNCHANGED <<notInfluxVars, close_queue, close_returned, queue_max_size, batch_size, stop, produced, w_pc, lines,
                   enq_start, enq_touched, sent, failed>>

\* _worker: the test of "while not self.stop".
WorkerLoop ==
    /\ w_pc = "loop"
    /\ w_pc' = IF stop THEN "exit" ELSE "get"
    /\ UNCHANGED <<notInfluxVars, close_queue, close_returned, queue_max_size, batch_size, q, stop, enq_pc, enq_line,
                   produced, lines, dropped, enq_start, enq_touched, enq_warnings,
                   enq_steps, sent, failed>>

\* _drain_batch: self.q.get(timeout=1); queue.Empty returns the empty batch
\* and the worker loops.
WorkerGet ==
    /\ w_pc = "get"
    /\ IF q # <<>>
         THEN /\ lines' = <<Head(q)>>
              /\ q' = Evict(q)
              /\ w_pc' = "drain"
              /\ enq_touched' = (enq_touched \/ enq_pc # "idle")
         ELSE /\ w_pc' = "loop"
              /\ UNCHANGED <<q, lines, enq_touched>>
    /\ UNCHANGED <<notInfluxVars, close_queue, close_returned, queue_max_size, batch_size, stop, enq_pc, enq_line,
                   produced, dropped, enq_start, enq_warnings, enq_steps, sent, failed>>

\* _drain_batch: one get_nowait of "while len(lines) < self.batch_size";
\* queue.Empty or a complete batch ends the drain.
WorkerDrain ==
    /\ w_pc = "drain"
    /\ IF BatchOpen(lines) /\ q # <<>>
         THEN /\ lines' = Append(lines, Head(q))
              /\ q' = Evict(q)
              /\ w_pc' = "drain"
              /\ enq_touched' = (enq_touched \/ enq_pc # "idle")
         ELSE /\ w_pc' = "send"
              /\ UNCHANGED <<q, lines, enq_touched>>
    /\ UNCHANGED <<notInfluxVars, close_queue, close_returned, queue_max_size, batch_size, stop, enq_pc, enq_line,
                   produced, dropped, enq_start, enq_warnings, enq_steps, sent, failed>>

\* _send_with_retries(lines) returns True or False; a failed batch is logged
\* and either way the worker forgets the batch and loops.
WorkerSend ==
    /\ w_pc = "send"
    /\ \E success \in BOOLEAN :
         /\ sent' = IF success THEN sent \o lines ELSE sent
         /\ failed' = IF success THEN failed ELSE failed \o lines
         /\ q' = AfterSend(q, lines, success)
    /\ lines' = <<>>
    /\ w_pc' = "loop"
    /\ UNCHANGED <<notInfluxVars, close_queue, close_returned, queue_max_size, batch_size, stop, enq_pc, enq_line,
                   produced, dropped, enq_start, enq_touched, enq_warnings, enq_steps>>

\* close(): the first call sets self.stop and goes on to join the worker.
InfluxClose ==
    /\ ~stop
    /\ stop' = TRUE
    /\ close_queue' = q
    /\ UNCHANGED <<notInfluxVars, close_returned, queue_max_size, batch_size, q, enq_pc, enq_line,
                   produced, w_pc, lines, dropped, enq_start, enq_touched, enq_warnings,
                   enq_steps, sent, failed>>

\* close(): self._worker_thread.join() returns once the worker has left
\* _worker; session.close() follows and close() returns.
InfluxJoin ==
    /\ stop
    /\ ~close_returned
    /\ w_pc = "exit"
    /\ close_returned' = TRUE
    /\ UNCHANGED <<notInfluxVars, close_queue, queue_max_size, batch_size, q, stop, enq_pc,
                   enq_line, produced, w_pc, lines, dropped, enq_start, enq_touched,
                   enq_warnings, enq_steps, sent, failed>>

NextInflux ==
    \/ Enqueue
    \/ PutWithOverflowPolicy
    \/ DropOldest
    \/ WorkerLoop
    \/ WorkerGet
    \/ WorkerDrain
    \/ WorkerSend
    \/ InfluxClose
    \/ InfluxJoin

\* ========================================================================
\* One acquisition session (src/edge/webapi/acquisition.py) and its runner
\* (src/edge/scr/acquisition.py)
\* ========================================================================

\* Bounds of the runner model.
\* Largest total_samples budget explored.
MaxTotal == 3
\* Largest block_size explored: a read returns 0..block_size samples.
MaxBlock == 2
\* Samples per channel the runner consumes before the model stops reading.
MaxConsumed == 4
\* Largest wall-clock value; the clock starts at 0 and never goes back.
MaxClock == 2

\* Settings explored: duration_s (in clock units), the drift threshold,
\* ts_step, the number of configured channels.
Durations == {NoneVal, 1}
Thresholds == {NoneVal, 0, 1}
TsSteps == {1, 2}
ChannelCounts == {0, 2}

\* PreviewQueue.__init__: maxsize of the asyncio.Queue.
PreviewMaxsize == 4

\* The sinks the sink factory can return, in factory order.
Sinks == {1, 2}

\* The sentinel (None) on the preview channel; data blocks are numbered >= 1.
Sentinel == 0

Abs(x) == IF x < 0 THEN -x ELSE x

\* Whether sink s is in the sequence of sinks.
InSeq(s, sinks) == \E i \in 1..Len(sinks) : sinks[i] = s

\* Mutant of ActualMode: the runner is given the requested mode even when a
\* preview was asked for.
ActualMode_Requested == mode

\* AcquisitionSession.start: actual_mode = "test" if preview_enabled.
ActualMode == IF preview_enabled THEN "test" ELSE mode

\* Mutant of TimedMode: test mode is not a timed mode.
TimedMode_TimedOnly == ActualMode = "timed"

\* run(): timed_mode = mode in {"timed", "test"}.
TimedMode == ActualMode \in {"timed", "test"}

\* Mutant of ConsumeBlockTimestamps: the first timestamp is one step late.
ConsumeBlockTimestamps_FromOne(next, block_len, step) ==
    [i \in 1..block_len |-> next + i * step]

\* _consume_block_timestamps: the timestamps of a block.
ConsumeBlockTimestamps(next, block_len, step) ==
    [i \in 1..block_len |-> next + (i - 1) * step]

\* _consume_block_timestamps: the updated accumulator.
CandidateNext(next, block_len, step) == next + block_len * step

\* Mutant of TruncatedLen: the block is never cut to the remaining budget.
TruncatedLen_NoCut(block_len, remaining) == block_len

\* run(): a block longer than the remaining budget is cut to it.
TruncatedLen(block_len, remaining) ==
    IF remaining # NoneVal /\ block_len > remaining THEN remaining ELSE block_len

\* Mutant of DriftNext: without a configured threshold any drift snaps.
DriftNext_SnapsWithoutThreshold(candidate, block_captured_ns, step, threshold) ==
    IF Abs(block_captured_ns + step - candidate) > (IF threshold = NoneVal THEN 0 ELSE threshold)
      THEN block_captured_ns + step
      ELSE candidate

\* run(): drift correction after a block captured at block_captured_ns.
DriftNext(candidate, block_captured_ns, step, threshold) ==
    LET expected_next_ts_ns == block_captured_ns + step
        drift_ns == expected_next_ts_ns - candidate
    IN  IF threshold # NoneVal /\ Abs(drift_ns) > threshold
          THEN expected_next_ts_ns
          ELSE candidate

\* _handle_block: the samples of one block in dispatch order: for each
\* channel in turn, one sample <<channel, timestamp>> per timestamp.
BlockSamples(timestamps) ==
    LET n == Len(timestamps)
    IN  [k \in 1..(n_channels * n) |->
            <<((k - 1) \div n) + 1, timestamps[((k - 1) % n) + 1]>>]

\* Position of sink s in the sequence sinks.
SinkIndex(s, sinks) == CHOOSE i \in 1..Len(sinks) : sinks[i] = s

\* Mutant of Dispatch: an exception of handle_sample leaves the loop over
\* the sinks, and the sinks after the one that raised get nothing.
Dispatch_Unwinds(rx, sinks, samples, raising) ==
    [s \in Sinks |->
        IF InSeq(s, sinks)
             /\ \A r \in raising : InSeq(r, sinks) => SinkIndex(s, sinks) <= SinkIndex(r, sinks)
          THEN rx[s] \o samples
          ELSE rx[s]]

\* _dispatch_sample over a block: handle_sample is called on every active
\* sink for every sample; an exception of a sink in `raising` is caught
\* and logged inside the loop over the sinks.
Dispatch(rx, sinks, samples, raising) ==
    [s \in Sinks |-> IF InSeq(s, sinks) THEN rx[s] \o samples ELSE rx[s]]

\* The active sinks whose handle_sample may raise for the first time.
MayRaise(sinks, faults) == {s \in raising_sinks : InSeq(s, sinks) /\ faults[s] = 0}

\* The record of first faults after the sinks in `raising` rejected the
\* first sample of a block dispatched on top of rx.
Faults(faults, rx, raising) ==
    [s \in Sinks |-> IF s \in raising THEN Len(rx[s]) + 1 ELSE faults[s]]

\* Mutant of EnqueueCall: a closed queue takes nothing, forced or not.
EnqueueCall_IgnoresForce(pending, closed, item, force) ==
    IF closed THEN pending ELSE Append(pending, <<item, force>>)

\* PreviewQueue._enqueue, the caller's side: a callback <<item, force>> is
\* handed to the loop unless the queue is closed and the put not forced.
EnqueueCall(pending, closed, item, force) ==
    IF closed /\ ~force THEN pending ELSE Append(pending, <<item, force>>)

\* _publish_preview_block: put_nowait on the broadcast channel, if any.
PublishPreview(pending, closed, item) ==
    IF test_mode_active /\ preview_enabled
      THEN EnqueueCall(pending, closed, item, FALSE)
      ELSE pending

\* Mutant of PutDiscarded: the callback does not look at the closed flag.
PutDiscarded_Never(closed, force) == FALSE

\* _put: "if self._closed and not force: return".
PutDiscarded(closed, force) == closed /\ ~force

\* asyncio.Queue.full() of the preview queue.
QueueFull(queue) == Len(queue) >= PreviewMaxsize

\* Mutant of MakeRoom: a full queue gives up its newest item.
MakeRoom_DropsNewest(queue) ==
    IF QueueFull(queue) THEN SubSeq(queue, 1, Len(queue) - 1) ELSE queue

\* _put: a full queue loses the item get_nowait returns, its oldest.
MakeRoom(queue) == IF QueueFull(queue) THEN Tail(queue) ELSE queue

\* PreviewQueue.close: the first call marks the queue closed and hands the
\* forced sentinel to the loop; later calls do nothing.
CloseCall(pending, closed) ==
    IF closed THEN pending ELSE EnqueueCall(pending, TRUE, Sentinel, TRUE)

\* Mutant of ReadySinks: a sink whose open() raised stays in the list.
ReadySinks_All(n, failing) == [i \in 1..n |-> i]

\* _initialize_sinks: the sinks of the factory, in its order, without those
\* whose open() raised.
ReadySinks(n, failing) == SelectSeq([i \in 1..n |-> i], LAMBDA s : s \notin failing)

\* Mutant of ShutdownCloses: sinks are closed only when run() ends normally.
ShutdownCloses_OnlyOnSuccess(closed, sinks) ==
    [s \in Sinks |-> IF raised = "none" /\ InSeq(s, sinks)
                       THEN closed[s] + 1
                       ELSE closed[s]]

\* _shutdown_sinks: close() on every active sink.
ShutdownCloses(closed, sinks) ==
    [s \in Sinks |-> IF InSeq(s, sinks) THEN closed[s] + 1 ELSE closed[s]]

\* Mutant of StatusAfterStop: stop() records "stopped" whatever the status.
StatusAfterStop_Always(st) == "stopped"

\* stop(): 'if self._status == "running": self._status = "stopped"'.
StatusAfterStop(st) == IF st = "running" THEN "stopped" ELSE st

\* _runner: the status after runner.run returned or raised.
StatusAfterRun(st, exc) ==
    IF exc # "none" THEN "failed"
    ELSE IF st = "running" THEN "finished" ELSE st

\* read_block: a_in_scan_read returns fewer than block_samples per channel
\* only when its timeout expired; the flag data.timeout is not examined and
\* the short block is returned like any other.
ReadTimedOut(raw_len) == raw_len < block_size

\* Mutant of StopObserved: the loop never looks at the stop flag.
StopObserved_Never == FALSE

\* run(): "if self._stop_requested" at the head of the loop.
StopObserved == stop_requested

\* The session's worker thread is alive until _runner returns.
ThreadAlive == pc # "t_exit"

\* AcquisitionSession.is_active.
IsActive == ~stop_event /\ ThreadAlive

\* AcquisitionSession.__post_init__, AcquisitionRunner.__init__ and
\* start(): the session right after its thread was started.
SessionStart ==
    /\ pc = "t_begin"
    /\ stop_requested = FALSE
    /\ test_mode_active = FALSE
    /\ active_sinks = <<>>
    /\ sink_open = [s \in Sinks |-> "no"]
    /\ sink_closed = [s \in Sinks |-> 0]
    /\ sink_rx = [s \in Sinks |-> <<>>]
    /\ sink_faults = [s \in Sinks |-> 0]
    /\ factory_calls = 0
    /\ board = "none"
    /\ scan_stops = 0
    /\ scan_cleanups = 0
    /\ now = 0
    /\ next_ts_ns = 0
    /\ deadline_ns = NoneVal
    /\ remaining_samples = NoneVal
    /\ consumed = 0
    /\ blocks_broadcast = 0
    /\ last_read = [len |-> 0, delivered |-> 0, stop_pending |-> FALSE]
    /\ timeout_seen = FALSE
    /\ raised = "none"
    /\ exit_reason = "none"
    /\ status = "starting"
    /\ error = "none"
    /\ finished_at = FALSE
    /\ stop_event = FALSE
    /\ s_pc = "idle"
    /\ pq_closed = FALSE
    /\ pq_pending = <<>>
    /\ pq_queue = <<>>
    /\ pq_sentinels = 0
    /\ pq_received = FALSE
    /\ pq_evicted = <<>>

\* The session untouched, for the specifications of the other components.
IdleRunner ==
    /\ preview_enabled = FALSE
    /\ mode = "continuous"
    /\ total_samples = NoneVal
    /\ duration_ns = NoneVal
    /\ drift_threshold_ns = NoneVal
    /\ ts_step = 1
    /\ n_channels = 0
    /\ n_sinks = 0
    /\ block_size = 1
    /\ raising_sinks = {}
    /\ SessionStart

\* The runner specification: every settings snapshot within the bounds. A
\* preview session runs in test mode, where the requested mode and the sink
\* factory are never consulted.
InitRunner ==
    /\ preview_enabled \in BOOLEAN
    /\ mode \in IF preview_enabled THEN {"continuous"} ELSE {"continuous", "timed"}
    /\ total_samples \in {NoneVal} \cup 1..MaxTotal
    /\ duration_ns \in Durations
    /\ drift_threshold_ns \in Thresholds
    /\ ts_step \in TsSteps
    /\ n_channels \in ChannelCounts
    /\ n_sinks \in IF preview_enabled THEN {0} ELSE 0..Cardinality(Sinks)
    /\ block_size = MaxBlock
    /\ raising_sinks = {}
    /\ SessionStart

\* The test-mode specification: preview sessions whose storage settings
\* name every sink, whatever mode was requested, with no drift threshold.
InitTestMode ==
    /\ preview_enabled = TRUE
    /\ mode \in {"continuous", "timed"}
    /\ total_samples \in {NoneVal} \cup 1..MaxTotal
    /\ duration_ns \in Durations
    /\ drift_threshold_ns = NoneVal
    /\ ts_step = 1
    /\ n_channels \in ChannelCounts
    /\ n_sinks = Cardinality(Sinks)
    /\ block_size = MaxBlock
    /\ raising_sinks = {}
    /\ SessionStart

\* The preview specification: preview sessions of blocks of one sample,
\* with no sample budget, no duration and no drift threshold.
InitPreview ==
    /\ preview_enabled = TRUE
    /\ mode = "continuous"
    /\ total_samples = NoneVal
    /\ duration_ns = NoneVal
    /\ drift_threshold_ns = NoneVal
    /\ ts_step = 1
    /\ n_channels \in ChannelCounts
    /\ n_sinks = 0
    /\ block_size = 1
    /\ raising_sinks = {}
    /\ SessionStart

\* The dispatch specification: sessions without preview whose factory
\* returns every sink, any of which may raise from handle_sample; no drift
\* threshold.
InitDispatch ==
    /\ preview_enabled = FALSE
    /\ mode \in {"continuous", "timed"}
    /\ total_samples \in {NoneVal} \cup 1..MaxTotal
    /\ duration_ns \in Durations
    /\ drift_threshold_ns = NoneVal
    /\ ts_step = 1
    /\ n_channels \in ChannelCounts
    /\ n_sinks = Cardinality(Sinks)
    /\ block_size = MaxBlock
    /\ raising_sinks \in SUBSET Sinks
    /\ SessionStart

\* The session specification: sessions with and without preview, blocks of
\* one sample, no drift threshold.
InitSession ==
    /\ preview_enabled \in BOOLEAN
    /\ mode \in {"continuous", "timed"}
    /\ total_samples \in {NoneVal, 2}
    /\ duration_ns \in Durations
    /\ drift_threshold_ns = NoneVal
    /\ ts_step = 1
    /\ n_channels \in ChannelCounts
    /\ n_sinks = 1
    /\ block_size = 1
    /\ raising_sinks = {}
    /\ SessionStart


\* _runner: self._status = "running", then the call of runner.run.
ThreadBegin ==
    /\ pc = "t_begin"
    /\ status' = "running"
    /\ pc' = "run_enter"
    /\ UNCHANGED <<notRunnerVars, cfgVars, stop_requested, test_mode_active, sinkVars, boardVars,
                   loopVars, exitVars, error, finished_at, stop_event, s_pc, pqVars>>

\* run(), lines 105-125: the broadcast channel and test mode are recorded;
\* outside test mode _initialize_sinks calls the sink factory and open() on
\* each sink in turn; a sink whose open() raises (the sinks of `failing`) is
\* left out of the active list.
RunEnter ==
    /\ pc = "run_enter"
    /\ test_mode_active' = (ActualMode = "test")
    /\ IF ActualMode = "test"
         THEN /\ active_sinks' = <<>>
              /\ UNCHANGED <<sink_open, factory_calls>>
         ELSE \E failing \in SUBSET (1..n_sinks) :
                /\ factory_calls' = factory_calls + 1
                /\ sink_open' = [s \in Sinks |->
                                   IF s > n_sinks THEN "no"
                                   ELSE IF s \in failing THEN "failed" ELSE "ok"]
                /\ active_sinks' = ReadySinks(n_sinks, failing)
    /\ pc' = "open_board"
    /\ UNCHANGED <<notRunnerVars, cfgVars, stop_requested, sink_closed, sink_rx, sink_faults,
                   boardVars,
                   loopVars, exitVars, sessVars, s_pc, pqVars>>

\* run(): open_mcc128() raises (no board) or returns the board; with no
\* configured channel run() returns at once.
OpenBoard ==
    /\ pc = "open_board"
    /\ \/ /\ raised' = "HardwareUnavailable"
          /\ exit_reason' = "open_failed"
          /\ board' = board
       \/ /\ board' = "open"
          /\ raised' = raised
          /\ exit_reason' = IF n_channels = 0 THEN "no_channels" ELSE exit_reason
    /\ pc' = IF board' = "open" /\ n_channels > 0 THEN "start_scan" ELSE "run_finally"
    /\ UNCHANGED <<notRunnerVars, cfgVars, stop_requested, test_mode_active, sinkVars, scan_stops,
                   scan_cleanups, loopVars, sessVars, s_pc, pqVars>>

\* run(): start_scan raises, or returns and the loop state is initialised:
\* next_ts_ns = time_ns(), the deadline and the sample budget in timed modes.
StartScan ==
    /\ pc = "start_scan"
    /\ \/ /\ raised' = "StartScanError"
          /\ exit_reason' = "start_scan_failed"
          /\ pc' = "run_finally"
          /\ UNCHANGED <<next_ts_ns, deadline_ns, remaining_samples>>
       \/ /\ next_ts_ns' = now
          /\ deadline_ns' = IF TimedMode /\ duration_ns # NoneVal
                              THEN now + duration_ns ELSE NoneVal
          /\ remaining_samples' = IF TimedMode /\ total_samples # NoneVal
                                    THEN total_samples ELSE NoneVal
          /\ pc' = "loop"
          /\ UNCHANGED <<raised, exit_reason>>
    /\ UNCHANGED <<notRunnerVars, cfgVars, stop_requested, test_mode_active, sinkVars, boardVars,
                   now, consumed, blocks_broadcast, last_read, timeout_seen, sessVars, s_pc,
                   pqVars>>

\* run(): the head of "while True": the stop flag, then the deadline against
\* a fresh time_ns(); otherwise read_block is called.
LoopHead ==
    /\ pc = "loop"
    /\ \E t \in now..MaxClock :
         /\ now' = IF ~StopObserved /\ deadline_ns # NoneVal THEN t ELSE now
         /\ IF StopObserved
              THEN /\ exit_reason' = "stop"
                   /\ pc' = "run_finally"
                   /\ UNCHANGED last_read
              ELSE IF deadline_ns # NoneVal /\ now' >= deadline_ns
                THEN /\ exit_reason' = "deadline"
                     /\ pc' = "run_finally"
                     /\ UNCHANGED last_read
                ELSE /\ pc' = "read"
                     /\ last_read' = [len |-> 0, delivered |-> 0, stop_pending |-> FALSE]
                     /\ UNCHANGED exit_reason
    /\ UNCHANGED <<notRunnerVars, cfgVars, stop_requested, test_mode_active, sinkVars, boardVars,
                   next_ts_ns, deadline_ns, remaining_samples, consumed, blocks_broadcast,
                   timeout_seen, raised, sessVars, s_pc, pqVars>>

\* read_block raises (overrun, driver error): the exception leaves run().
ReadBlockRaises ==
    /\ pc = "read"
    /\ raised' = "Overrun"
    /\ exit_reason' = "read_failed"
    /\ pc' = "run_finally"
    /\ UNCHANGED <<notRunnerVars, cfgVars, stop_requested, test_mode_active, sinkVars, boardVars,
                   loopVars, sessVars, s_pc, pqVars>>

\* One iteration after read_block returned raw_len samples per channel at
\* wall-clock time t (fewer than block_size when the driver timed out): an
\* empty block continues; otherwise the block is cut
\* to the budget, timestamped, handed to _handle_block (every sample to every
\* active sink, the sinks in `raising` raising from handle_sample on the
\* block's first sample; in test mode one calibrated block to the preview
\* channel),
\* next_ts_ns is advanced or snapped, and the budget and the deadline are
\* tested.
ReadBlockReturns ==
    /\ pc = "read"
    /\ \E raw_len \in 0..block_size, t \in now..MaxClock :
         LET block_len == TruncatedLen(raw_len, remaining_samples)
             timestamps == ConsumeBlockTimestamps(next_ts_ns, block_len, ts_step)
             candidate == CandidateNext(next_ts_ns, block_len, ts_step)
             left == IF remaining_samples # NoneVal
                       THEN remaining_samples - block_len ELSE NoneVal
             broadcast == test_mode_active /\ preview_enabled /\ block_len > 0
         IN  /\ consumed + block_len <= MaxConsumed
             /\ now' = t
             /\ timeout_seen' = (timeout_seen \/ ReadTimedOut(raw_len))
             /\ IF raw_len = 0
                  THEN /\ pc' = "loop"
                       /\ last_read' = [last_read EXCEPT !.len = 0,
                                                         !.stop_pending = stop_requested]
                       /\ UNCHANGED <<next_ts_ns, remaining_samples, consumed,
                                      blocks_broadcast, sink_rx, sink_faults, pq_pending,
                                      exit_reason>>
                  ELSE /\ \E raising \in SUBSET MayRaise(active_sinks, sink_faults) :
                            /\ (raising # {} => n_channels > 0)
                            /\ sink_rx' = Dispatch(sink_rx, active_sinks,
                                                   BlockSamples(timestamps), raising)
                            /\ sink_faults' = Faults(sink_faults, sink_rx, raising)
                       /\ pq_pending' = IF broadcast
                                          THEN PublishPreview(pq_pending, pq_closed,
                                                              blocks_broadcast + 1)
                                          ELSE pq_pending
                       /\ blocks_broadcast' = IF broadcast THEN blocks_broadcast + 1
                                                            ELSE blocks_broadcast
                       /\ consumed' = consumed + block_len
                       /\ last_read' = [len |-> raw_len, delivered |-> block_len,
                                        stop_pending |-> stop_requested]
                       /\ next_ts_ns' = DriftNext(candidate, t, ts_step,
                                                  drift_threshold_ns)
                       /\ remaining_samples' = left
                       /\ IF remaining_samples # NoneVal /\ left <= 0
                            THEN /\ exit_reason' = "budget"
                                 /\ pc' = "run_finally"
                            ELSE IF deadline_ns # NoneVal /\ t >= deadline_ns
                              THEN /\ exit_reason' = "deadline_after_block"
                                   /\ pc' = "run_finally"
                              ELSE /\ pc' = "loop"
                                   /\ UNCHANGED exit_reason
    /\ UNCHANGED <<notRunnerVars, cfgVars, stop_requested, test_mode_active, active_sinks, sink_open,
                   sink_closed, factory_calls, boardVars, deadline_ns, raised, sessVars,
                   s_pc, pq_closed, pq_queue, pq_sentinels, pq_received, pq_evicted>>

\* run(), the finally clause: _shutdown_sinks, scan stop and cleanup when a
\* board was opened, the sentinel to the preview channel in test mode, and
\* the runner's channel and test flag are reset.
RunFinally ==
    /\ pc = "run_finally"
    /\ sink_closed' = ShutdownCloses(sink_closed, active_sinks)
    /\ active_sinks' = <<>>
    /\ scan_stops' = IF board # "none" THEN scan_stops + 1 ELSE scan_stops
    /\ scan_cleanups' = IF board # "none" THEN scan_cleanups + 1 ELSE scan_cleanups
    /\ pq_pending' = PublishPreview(pq_pending, pq_closed, Sentinel)
    /\ test_mode_active' = FALSE
    /\ pc' = "t_after_run"
    /\ UNCHANGED <<notRunnerVars, cfgVars, stop_requested, sink_open, sink_rx, sink_faults,
                   factory_calls, board,
                   loopVars, exitVars, sessVars, s_pc, pq_closed, pq_queue,
                   pq_sentinels, pq_received, pq_evicted>>

\* _runner: "finished" if run() returned while the status was "running";
\* "failed" and the error string if it raised.
ThreadAfterRun ==
    /\ pc = "t_after_run"
    /\ status' = StatusAfterRun(status, raised)
    /\ error' = IF raised # "none" THEN raised ELSE error
    /\ pc' = "t_finished_at"
    /\ UNCHANGED <<notRunnerVars, cfgVars, stop_requested, test_mode_active, sinkVars, boardVars,
                   loopVars, exitVars, finished_at, stop_event, s_pc, pqVars>>

\* _runner, finally: finished_at is set.
ThreadFinishedAt ==
    /\ pc = "t_finished_at"
    /\ finished_at' = TRUE
    /\ pc' = "t_close"
    /\ UNCHANGED <<notRunnerVars, cfgVars, stop_requested, test_mode_active, sinkVars, boardVars,
                   loopVars, exitVars, status, error, stop_event, s_pc, pqVars>>

\* _runner, finally: preview_queue.close() when the session has a queue.
ThreadClose ==
    /\ pc = "t_close"
    /\ pq_pending' = IF preview_enabled THEN CloseCall(pq_pending, pq_closed)
                                        ELSE pq_pending
    /\ pq_closed' = (preview_enabled \/ pq_closed)
    /\ pc' = "t_set_event"
    /\ UNCHANGED <<notRunnerVars, cfgVars, stop_requested, test_mode_active, sinkVars, boardVars,
                   loopVars, exitVars, sessVars, s_pc, pq_queue, pq_sentinels, pq_received, pq_evicted>>

\* _runner, finally: self._stop_event.set().
ThreadSetEvent ==
    /\ pc = "t_set_event"
    /\ stop_event' = TRUE
    /\ pc' = "t_return"
    /\ UNCHANGED <<notRunnerVars, cfgVars, stop_requested, test_mode_active, sinkVars, boardVars,
                   loopVars, exitVars, status, error, finished_at, s_pc, pqVars>>

\* _runner returns and the thread is no longer alive.
ThreadExit ==
    /\ pc = "t_return"
    /\ pc' = "t_exit"
    /\ UNCHANGED <<notRunnerVars, cfgVars, stop_requested, test_mode_active, sinkVars, boardVars,
                   loopVars, exitVars, sessVars, s_pc, pqVars>>

\* The event loop runs the oldest _put callback: dropped when the queue is
\* closed and the put is not forced; on a full queue the oldest item is
\* removed first; then the item is put.
LoopRunsPut ==
    /\ pq_pending # <<>>
    /\ LET item == Head(pq_pending)[1]
           force == Head(pq_pending)[2]
           full == QueueFull(pq_queue)
           room == MakeRoom(pq_queue)
       IN  IF PutDiscarded(pq_closed, force)
             THEN UNCHANGED <<pq_queue, pq_sentinels, pq_evicted>>
             ELSE /\ pq_queue' = Append(room, item)
                  /\ pq_evicted' = IF full THEN Append(pq_evicted, Head(pq_queue))
                                            ELSE pq_evicted
                  /\ pq_sentinels' = IF item = Sentinel THEN pq_sentinels + 1
                                                        ELSE pq_sentinels
    /\ pq_pending' = Tail(pq_pending)
    /\ UNCHANGED <<notRunnerVars, cfgVars, pc, stop_requested, test_mode_active, sinkVars, boardVars,
                   loopVars, exitVars, sessVars, s_pc, pq_closed, pq_received>>

\* The subscriber's stream_preview: "block = await queue.get()" takes the
\* oldest item; None ends the stream, a data block is sent on and the loop
\* goes on reading.
PreviewGet ==
    /\ preview_enabled
    /\ ~pq_received
    /\ pq_queue # <<>>
    /\ pq_queue' = Tail(pq_queue)
    /\ pq_received' = (Head(pq_queue) = Sentinel)
    /\ UNCHANGED <<notRunnerVars, cfgVars, pc, stop_requested, test_mode_active, sinkVars, boardVars,
                   loopVars, exitVars, sessVars, s_pc, pq_closed, pq_pending, pq_sentinels,
                   pq_evicted>>

\* stop_session -> session.stop(), called on an active session:
\* preview_queue.close().
StopClose ==
    /\ s_pc = "idle"
    /\ IsActive
    /\ pq_pending' = IF preview_enabled THEN CloseCall(pq_pending, pq_closed)
                                        ELSE pq_pending
    /\ pq_closed' = (preview_enabled \/ pq_closed)
    /\ s_pc' = "request"
    /\ UNCHANGED <<notRunnerVars, cfgVars, pc, stop_requested, test_mode_active, sinkVars, boardVars,
                   loopVars, exitVars, sessVars, pq_queue, pq_sentinels, pq_received, pq_evicted>>

\* stop(): self.runner.request_stop().
StopRequest ==
    /\ s_pc = "request"
    /\ stop_requested' = TRUE
    /\ s_pc' = "wait"
    /\ UNCHANGED <<notRunnerVars, cfgVars, pc, test_mode_active, sinkVars, boardVars, loopVars,
                   exitVars, sessVars, pqVars>>

\* stop(): self._stop_event.wait(timeout) returns because the event is set.
StopWaitReturns ==
    /\ s_pc = "wait"
    /\ stop_event
    /\ s_pc' = "join"
    /\ UNCHANGED <<notRunnerVars, cfgVars, pc, stop_requested, test_mode_active, sinkVars, boardVars,
                   loopVars, exitVars, sessVars, pqVars>>

\* stop(): the wait expires after `timeout` seconds with the event not set.
StopWaitTimeout ==
    /\ s_pc = "wait"
    /\ ~stop_event
    /\ s_pc' = "join"
    /\ UNCHANGED <<notRunnerVars, cfgVars, pc, stop_requested, test_mode_active, sinkVars, boardVars,
                   loopVars, exitVars, sessVars, pqVars>>

\* stop(): the thread is not alive, or join(timeout) returns because the
\* thread ended.
StopJoinReturns ==
    /\ s_pc = "join"
    /\ ~ThreadAlive
    /\ s_pc' = "finalize"
    /\ UNCHANGED <<notRunnerVars, cfgVars, pc, stop_requested, test_mode_active, sinkVars, boardVars,
                   loopVars, exitVars, sessVars, pqVars>>

\* stop(): join(timeout) expires with the thread still alive.
StopJoinTimeout ==
    /\ s_pc = "join"
    /\ ThreadAlive
    /\ s_pc' = "finalize"
    /\ UNCHANGED <<notRunnerVars, cfgVars, pc, stop_requested, test_mode_active, sinkVars, boardVars,
                   loopVars, exitVars, sessVars, pqVars>>

\* stop(): finished_at is set if still None, and a status still "running"
\* becomes "stopped".
StopFinalize ==
    /\ s_pc = "finalize"
    /\ finished_at' = TRUE
    /\ status' = StatusAfterStop(status)
    /\ s_pc' = "returned"
    /\ UNCHANGED <<notRunnerVars, cfgVars, pc, stop_requested, test_mode_active, sinkVars,
                   boardVars, loopVars, exitVars, error, stop_event, pqVars>>

\* request_stop(), called while run() is in progress by whoever holds the
\* runner.
RequestStop ==
    /\ pc \notin {"t_begin", "t_after_run", "t_finished_at", "t_close", "t_set_event",
                  "t_return", "t_exit"}
    /\ ~stop_requested
    /\ stop_requested' = TRUE
    /\ UNCHANGED <<notRunnerVars, cfgVars, pc, test_mode_active, sinkVars, boardVars,
                   loopVars, exitVars, sessVars, s_pc, pqVars>>

\* The runner on its thread, with request_stop() arriving at any moment.
NextRunner ==
    \/ ThreadBegin
    \/ RunEnter
    \/ OpenBoard
    \/ StartScan
    \/ LoopHead
    \/ ReadBlockRaises
    \/ ReadBlockReturns
    \/ RunFinally
    \/ ThreadAfterRun
    \/ RequestStop

\* The whole session: the worker thread to its end, the event loop running
\* the preview callbacks, and a thread executing stop().
NextSession ==
    \/ ThreadBegin
    \/ RunEnter
    \/ OpenBoard
    \/ StartScan
    \/ LoopHead
    \/ ReadBlockRaises
    \/ ReadBlockReturns
    \/ RunFinally
    \/ ThreadAfterRun
    \/ ThreadFinishedAt
    \/ ThreadClose
    \/ ThreadSetEvent
    \/ ThreadExit
    \/ LoopRunsPut
    \/ StopClose
    \/ StopRequest
    \/ StopWaitReturns
    \/ StopWaitTimeout
    \/ StopJoinReturns
    \/ StopJoinTimeout
    \/ StopFinalize

\* Largest number of blocks put on a PreviewQueue taken alone.
MaxPuts == 6

\* PreviewQueue.put_nowait(block), the caller's side, for the next block.
PutNowait ==
    /\ blocks_broadcast < MaxPuts
    /\ pq_pending' = EnqueueCall(pq_pending, pq_closed, blocks_broadcast + 1, FALSE)
    /\ blocks_broadcast' = blocks_broadcast + 1
    /\ UNCHANGED <<notRunnerVars, cfgVars, pc, stop_requested, test_mode_active, sinkVars, boardVars,
                   now, next_ts_ns, deadline_ns, remaining_samples, consumed, last_read,
                   timeout_seen, exitVars, sessVars, s_pc, pq_closed, pq_queue,
                   pq_sentinels, pq_received, pq_evicted>>

\* PreviewQueue.close() on a queue not yet closed.
QueueClose ==
    /\ ~pq_closed
    /\ pq_pending' = CloseCall(pq_pending, pq_closed)
    /\ pq_closed' = TRUE
    /\ UNCHANGED <<notRunnerVars, cfgVars, pc, stop_requested, test_mode_active, sinkVars, boardVars,
                   loopVars, exitVars, sessVars, s_pc, pq_queue, pq_sentinels, pq_received,
                   pq_evicted>>

\* One PreviewQueue: a producer thread putting blocks, the event loop
\* running the callbacks, a subscriber reading, and close().
NextPreviewQueue ==
    \/ PutNowait
    \/ QueueClose
    \/ LoopRunsPut
    \/ PreviewGet

\* A preview session with a subscriber reading its queue.
NextPreview ==
    \/ ThreadBegin
    \/ RunEnter
    \/ OpenBoard
    \/ StartScan
    \/ LoopHead
    \/ ReadBlockRaises
    \/ ReadBlockReturns
    \/ RunFinally
    \/ ThreadAfterRun
    \/ ThreadFinishedAt
    \/ ThreadClose
    \/ ThreadSetEvent
    \/ ThreadExit
    \/ LoopRunsPut
    \/ PreviewGet
    \/ StopClose
    \/ StopRequest
    \/ StopWaitReturns
    \/ StopWaitTimeout
    \/ StopJoinReturns
    \/ StopJoinTimeout
    \/ StopFinalize

\* ========================================================================
\* AcquisitionSessionManager (src/edge/webapi/acquisition.py)
\* ========================================================================

\* Sessions the control plane may construct in one behaviour.
MaxSessions == 2

\* manager._last_summary is None.
NoSummary == [id |-> 0, status |-> "none", finished_at |-> FALSE, error |-> "none"]

\* AcquisitionSession.__post_init__ and start(): a session whose thread has
\* been started. The thread positions are "started", "run" (inside
\* runner.run), "finally", "set_event", "return" and "exit" (not alive).
\* consumers is _preview_consumers; streams counts the preview streams
\* that were handed the session's queue and have not released it.
NewSession(preview) ==
    [preview |-> preview, thread |-> "started", status |-> "starting",
     error |-> "none", finished_at |-> FALSE, stop_event |-> FALSE,
     stop_requested |-> FALSE, pq_closed |-> FALSE, consumers |-> 0,
     streams |-> 0]

\* Thread.is_alive() of a session's thread.
Alive(sess) == sess.thread # "exit"

\* AcquisitionSession.is_active, the value returned.
SessionIsActive(sess) == ~sess.stop_event /\ Alive(sess)

\* AcquisitionSession.is_active, its effect: a dead thread sets the event.
AfterIsActive(sess) ==
    IF ~sess.stop_event /\ ~Alive(sess) THEN [sess EXCEPT !.stop_event = TRUE] ELSE sess

\* AcquisitionSession.info().
Info(s, sess) ==
    [id |-> s, status |-> sess.status, finished_at |-> sess.finished_at,
     error |-> sess.error]

\* _cleanup_finished_session_locked: the slot after the cleanup.
CleanSession(session, sessions) ==
    IF session # 0 /\ ~SessionIsActive(sessions[session]) THEN 0 ELSE session

\* _cleanup_finished_session_locked: the last summary after the cleanup.
CleanSummary(session, sessions, summary) ==
    IF session # 0 /\ ~SessionIsActive(sessions[session])
      THEN Info(session, sessions[session])
      ELSE summary

\* _cleanup_finished_session_locked: the sessions after is_active was read.
CleanSessions(session, sessions) ==
    IF session # 0
      THEN [sessions EXCEPT ![session] = AfterIsActive(sessions[session])]
      ELSE sessions

\* Mutant of SlotTaken: start_session never finds the slot taken.
SlotTaken_Never(session) == FALSE

\* start_session: "if self._session is not None" raises the conflict.
SlotTaken(session) == session # 0

\* Mutant of SlotEmpty: stop_session never finds the slot empty.
SlotEmpty_Never(session) == FALSE

\* stop_session: "if session is None" raises the conflict.
SlotEmpty(session) == session = 0

\* Mutant of WaitExpires: the event wait has no timeout.
WaitExpires_Never(sess) == FALSE

\* session.stop(): self._stop_event.wait(timeout) gives up on an event that
\* is still not set when the timeout has passed.
WaitExpires(sess) == ~sess.stop_event

\* Mutant of JoinExpires: the join has no timeout.
JoinExpires_Never(sess) == FALSE

\* session.stop(): self._thread.join(timeout=timeout) gives up on a thread
\* that is still alive when the timeout has passed.
JoinExpires(sess) == Alive(sess)

InitManager ==
    /\ m_session = 0
    /\ m_last_summary = NoSummary
    /\ m_lock = "free"
    /\ m_created = 0
    /\ m_sessions = <<>>
    /\ m_resp = [op |-> "none", code |-> 0]

\* start_session(request): the cleanup, the conflict when the slot is taken;
\* otherwise the settings are loaded (which may raise), the session is
\* constructed and started, stored in the slot, and the last summary reset.
StartSession ==
    /\ m_lock = "free"
    /\ \E preview \in BOOLEAN, loaded \in BOOLEAN :
         LET session == CleanSession(m_session, m_sessions)
             summary == CleanSummary(m_session, m_sessions, m_last_summary)
             sessions == CleanSessions(m_session, m_sessions)
         IN  IF SlotTaken(session)
               THEN /\ m_resp' = [op |-> "start", code |-> 409]
                    /\ m_session' = session
                    /\ m_last_summary' = summary
                    /\ m_sessions' = sessions
                    /\ m_created' = m_created
               ELSE IF ~loaded
                 THEN /\ m_resp' = [op |-> "start", code |-> 500]
                      /\ m_session' = session
                      /\ m_last_summary' = summary
                      /\ m_sessions' = sessions
                      /\ m_created' = m_created
                 ELSE /\ m_created < MaxSessions
                      /\ m_resp' = [op |-> "start", code |-> 202]
                      /\ m_created' = m_created + 1
                      /\ m_sessions' = Append(sessions, NewSession(preview))
                      /\ m_session' = m_created + 1
                      /\ m_last_summary' = NoSummary
    /\ UNCHANGED <<notManagerVars, m_lock>>

\* stop_session(): the cleanup, the conflict when the slot is empty; otherwise
\* session.stop is handed to a worker thread while the lock is held.
StopSessionBegin ==
    /\ m_lock = "free"
    /\ LET session == CleanSession(m_session, m_sessions)
       IN  /\ m_session' = session
           /\ m_last_summary' = CleanSummary(m_session, m_sessions, m_last_summary)
           /\ m_sessions' = CleanSessions(m_session, m_sessions)
           /\ IF SlotEmpty(session)
                THEN /\ m_resp' = [op |-> "stop", code |-> 409]
                                      /\ m_lock' = m_lock
                ELSE /\ m_lock' = "stop_close"
                     /\ UNCHANGED m_resp
    /\ UNCHANGED <<notManagerVars, m_created>>

\* session.stop(): preview_queue.close() and runner.request_stop().
ManagerStopRequest ==
    /\ m_lock = "stop_close"
    /\ m_sessions' = [m_sessions EXCEPT
                        ![m_session].pq_closed = @ \/ m_sessions[m_session].preview,
                        ![m_session].stop_requested = TRUE]
    /\ m_lock' = "stop_wait"
    /\ UNCHANGED <<notManagerVars, m_session, m_last_summary, m_created, m_resp>>

\* session.stop(): _stop_event.wait(timeout) returns with the event set.
ManagerStopWaitReturns ==
    /\ m_lock = "stop_wait"
    /\ m_sessions[m_session].stop_event
    /\ m_lock' = "stop_join"
    /\ UNCHANGED <<notManagerVars, m_session, m_last_summary, m_created, m_sessions,
                   m_resp>>

\* session.stop(): the wait expires with the event not set.
ManagerStopWaitTimeout ==
    /\ m_lock = "stop_wait"
    /\ WaitExpires(m_sessions[m_session])
    /\ m_lock' = "stop_join"
    /\ UNCHANGED <<notManagerVars, m_session, m_last_summary, m_created, m_sessions,
                   m_resp>>

\* session.stop(): the thread is not alive, or join(timeout) returns.
ManagerStopJoinReturns ==
    /\ m_lock = "stop_join"
    /\ ~Alive(m_sessions[m_session])
    /\ m_lock' = "stop_finalize"
    /\ UNCHANGED <<notManagerVars, m_session, m_last_summary, m_created, m_sessions,
                   m_resp>>

\* session.stop(): join(timeout) expires with the thread still alive.
ManagerStopJoinTimeout ==
    /\ m_lock = "stop_join"
    /\ JoinExpires(m_sessions[m_session])
    /\ m_lock' = "stop_finalize"
    /\ UNCHANGED <<notManagerVars, m_session, m_last_summary, m_created, m_sessions,
                   m_resp>>

\* session.stop(): finished_at if still None, "running" becomes "stopped".
ManagerStopFinalize ==
    /\ m_lock = "stop_finalize"
    /\ m_sessions' = [m_sessions EXCEPT
                        ![m_session].finished_at = TRUE,
                        ![m_session].status = StatusAfterStop(@)]
    /\ m_lock' = "stop_end"
    /\ UNCHANGED <<notManagerVars, m_session, m_last_summary, m_created, m_resp>>

\* stop_session(), after session.stop returned: the summary is recorded, the
\* slot cleared and the lock released.
StopSessionEnd ==
    /\ m_lock = "stop_end"
    /\ m_last_summary' = Info(m_session, m_sessions[m_session])
    /\ m_session' = 0
    /\ m_lock' = "free"
    /\ m_resp' = [op |-> "stop", code |-> 200]
    /\ UNCHANGED <<notManagerVars, m_created, m_sessions>>

\* current_session(): the cleanup, then the active session's info or None.
CurrentSession ==
    /\ m_lock = "free"
    /\ m_session' = CleanSession(m_session, m_sessions)
    /\ m_last_summary' = CleanSummary(m_session, m_sessions, m_last_summary)
    /\ m_sessions' = CleanSessions(m_session, m_sessions)
    /\ m_resp' = [op |-> "current", code |-> IF m_session' = 0 THEN 0 ELSE 200]
    /\ UNCHANGED <<notManagerVars, m_lock, m_created>>

\* Mutant of ConsumerSlotTaken: the test lets a second consumer in.
ConsumerSlotTaken_OffByOne(consumers) == consumers > 1

\* acquire_preview_queue: "if self._preview_consumers >= 1" raises.
ConsumerSlotTaken(consumers) == consumers >= 1

\* GET /preview/stream -> acquire_preview(): the cleanup; 409 when the slot
\* is empty or its session has no preview; otherwise acquire_preview_queue,
\* whose RuntimeError for a taken consumer slot becomes a 500; on success
\* the counter is incremented and the stream holds the session's queue.
AcquirePreview ==
    /\ m_lock = "free"
    /\ LET session == CleanSession(m_session, m_sessions)
           sessions == CleanSessions(m_session, m_sessions)
       IN  /\ m_session' = session
           /\ m_last_summary' = CleanSummary(m_session, m_sessions, m_last_summary)
           /\ IF session = 0 \/ ~sessions[session].preview
                THEN /\ m_sessions' = sessions
                     /\ m_resp' = [op |-> "acquire", code |-> 409]
                ELSE IF ConsumerSlotTaken(sessions[session].consumers)
                  THEN /\ m_sessions' = sessions
                       /\ m_resp' = [op |-> "acquire", code |-> 500]
                  ELSE /\ m_sessions' = [sessions EXCEPT
                                            ![session].consumers = @ + 1,
                                            ![session].streams = @ + 1]
                       /\ m_resp' = [op |-> "acquire", code |-> 200]
    /\ UNCHANGED <<notManagerVars, m_lock, m_created>>

\* event_source's finally of a stream holding the queue of session s ->
\* release_preview(session) -> release_preview_queue: the counter is
\* decremented when positive, whether or not s is still in the slot.
ReleasePreview(s) ==
    /\ m_lock = "free"
    /\ m_sessions[s].streams > 0
    /\ m_sessions' = [m_sessions EXCEPT
                        ![s].streams = @ - 1,
                        ![s].consumers = IF @ > 0 THEN @ - 1 ELSE @]
    /\ UNCHANGED <<notManagerVars, m_session, m_last_summary, m_lock, m_created,
                   m_resp>>

\* _runner of session s: self._status = "running", then runner.run is called.
ManagerThreadBegin(s) ==
    /\ m_sessions[s].thread = "started"
    /\ m_sessions' = [m_sessions EXCEPT ![s].thread = "run", ![s].status = "running"]
    /\ UNCHANGED <<notManagerVars, m_session, m_last_summary, m_lock, m_created,
                   m_resp>>

\* _runner of session s: runner.run returns or raises, at a moment of its own
\* choosing (budget, deadline, error) or after a stop request; a thread that
\* never takes this step is one that never leaves run().
ManagerThreadRunEnds(s) ==
    /\ m_sessions[s].thread = "run"
    /\ \E exc \in {"none", "Overrun"} :
         m_sessions' = [m_sessions EXCEPT
                          ![s].thread = "finally",
                          ![s].status = StatusAfterRun(@, exc),
                          ![s].error = IF exc # "none" THEN exc ELSE @]
    /\ UNCHANGED <<notManagerVars, m_session, m_last_summary, m_lock, m_created,
                   m_resp>>

\* _runner of session s, finally: finished_at and preview_queue.close().
ManagerThreadFinally(s) ==
    /\ m_sessions[s].thread = "finally"
    /\ m_sessions' = [m_sessions EXCEPT
                        ![s].thread = "set_event",
                        ![s].finished_at = TRUE,
                        ![s].pq_closed = @ \/ m_sessions[s].preview]
    /\ UNCHANGED <<notManagerVars, m_session, m_last_summary, m_lock, m_created,
                   m_resp>>

\* _runner of session s, finally: self._stop_event.set().
ManagerThreadSetEvent(s) ==
    /\ m_sessions[s].thread = "set_event"
    /\ m_sessions' = [m_sessions EXCEPT ![s].thread = "return", ![s].stop_event = TRUE]
    /\ UNCHANGED <<notManagerVars, m_session, m_last_summary, m_lock, m_created,
                   m_resp>>

\* _runner of session s returns: the thread is no longer alive.
ManagerThreadExit(s) ==
    /\ m_sessions[s].thread = "return"
    /\ m_sessions' = [m_sessions EXCEPT ![s].thread = "exit"]
    /\ UNCHANGED <<notManagerVars, m_session, m_last_summary, m_lock, m_created,
                   m_resp>>

\* No request for the session status, the state of every specification but
\* the one of session_status.
IdleStatus ==
    /\ gs_pc = "idle"
    /\ gs_created = 0
    /\ gs_resp = [active |-> FALSE, info |-> NoSummary]

\* Mutant of LastSession: last_session always answers None.
LastSession_Null(session, summary) == NoSummary

\* last_session(), after the cleanup: None while the slot is taken,
\* otherwise the last summary.
LastSession(session, summary) == IF session # 0 THEN NoSummary ELSE summary

\* session_status: "current = await session_manager.current_session()", the
\* first critical section: the cleanup; an active session is the response,
\* otherwise the handler goes on to last_session().
StatusCurrent ==
    /\ m_lock = "free"
    /\ gs_pc = "idle"
    /\ LET session == CleanSession(m_session, m_sessions)
           sessions == CleanSessions(m_session, m_sessions)
       IN  /\ m_session' = session
           /\ m_last_summary' = CleanSummary(m_session, m_sessions, m_last_summary)
           /\ m_sessions' = sessions
           /\ gs_created' = m_created
           /\ IF session # 0
                THEN /\ gs_pc' = "done"
                     /\ gs_resp' = [active |-> TRUE, info |-> Info(session, sessions[session])]
                ELSE /\ gs_pc' = "between"
                     /\ gs_resp' = gs_resp
    /\ UNCHANGED <<notManagerStatusVars, m_lock, m_created, m_resp>>

\* session_status: "last = await session_manager.last_session()", the second
\* critical section: the cleanup, then None if the slot is taken, else the
\* last summary; the response is {active: false, last_session: last}.
StatusLast ==
    /\ m_lock = "free"
    /\ gs_pc = "between"
    /\ LET session == CleanSession(m_session, m_sessions)
           summary == CleanSummary(m_session, m_sessions, m_last_summary)
       IN  /\ m_session' = session
           /\ m_last_summary' = summary
           /\ m_sessions' = CleanSessions(m_session, m_sessions)
           /\ gs_resp' = [active |-> FALSE, info |-> LastSession(session, summary)]
    /\ gs_pc' = "done"
    /\ UNCHANGED <<notManagerStatusVars, m_lock, m_created, m_resp, gs_created>>

ThreadBegins == \E s \in 1..m_created : ManagerThreadBegin(s)
ThreadRunEnds == \E s \in 1..m_created : ManagerThreadRunEnds(s)
ThreadFinallys == \E s \in 1..m_created : ManagerThreadFinally(s)
ThreadSetEvents == \E s \in 1..m_created : ManagerThreadSetEvent(s)
ThreadExits == \E s \in 1..m_created : ManagerThreadExit(s)
ReleasePreviews == \E s \in 1..m_created : ReleasePreview(s)

NextManager ==
    \/ StartSession
    \/ StopSessionBegin
    \/ ManagerStopRequest
    \/ ManagerStopWaitReturns
    \/ ManagerStopWaitTimeout
    \/ ManagerStopJoinReturns
    \/ ManagerStopJoinTimeout
    \/ ManagerStopFinalize
    \/ StopSessionEnd
    \/ CurrentSession
    \/ ThreadBegins
    \/ ThreadRunEnds
    \/ ThreadFinallys
    \/ ThreadSetEvents
    \/ ThreadExits

\* The manager's start and stop with preview streams acquiring and
\* releasing the queue.
NextSubscribers ==
    \/ StartSession
    \/ StopSessionBegin
    \/ ManagerStopRequest
    \/ ManagerStopWaitReturns
    \/ ManagerStopWaitTimeout
    \/ ManagerStopJoinReturns
    \/ ManagerStopJoinTimeout
    \/ ManagerStopFinalize
    \/ StopSessionEnd
    \/ ThreadBegins
    \/ ThreadRunEnds
    \/ ThreadFinallys
    \/ ThreadSetEvents
    \/ ThreadExits
    \/ AcquirePreview
    \/ ReleasePreviews

\* The manager's start and stop with one GET /acquisition/session arriving
\* at any moment.
NextStatus ==
    \/ StartSession
    \/ StopSessionBegin
    \/ ManagerStopRequest
    \/ ManagerStopWaitReturns
    \/ ManagerStopWaitTimeout
    \/ ManagerStopJoinReturns
    \/ ManagerStopJoinTimeout
    \/ ManagerStopFinalize
    \/ StopSessionEnd
    \/ ThreadBegins
    \/ ThreadRunEnds
    \/ ThreadFinallys
    \/ ThreadSetEvents
    \/ ThreadExits
    \/ StatusCurrent
    \/ StatusLast

\* ========================================================================
\* InfluxSender._send_with_retries (src/edge/scr/sinks/influx.py)
\* ========================================================================

\* Largest retry.max_attempts explored.
MaxAttempts == 3

\* session.post raised requests.RequestException instead of answering.
RequestException == 0

\* The status codes the server may answer with.
Statuses == {204, 301, 400, 401, 408, 409, 425, 429, 500, 503}

\* RETRIABLE_4XX.
RETRIABLE_4XX == {408, 409, 425, 429}

\* Mutant of ShouldRetry: every client error is retried.
ShouldRetry_Any4xx(status_code) == status_code >= 400

\* _should_retry.
ShouldRetry(status_code) ==
    IF status_code >= 500 THEN TRUE
    ELSE IF 400 <= status_code /\ status_code < 500 THEN status_code \in RETRIABLE_4XX
    ELSE FALSE

\* Mutant of LastAttempt: the loop allows one attempt too many.
LastAttempt_OneMore(n) == n = max_attempts + 1

\* _send_with_retries: "attempt == self.max_attempts".
LastAttempt(n) == n = max_attempts

\* One call of _send_with_retries about to make its first attempt.
InitSend ==
    /\ max_attempts \in 1..MaxAttempts
    /\ attempt = 1
    /\ responses = <<>>
    /\ sleeps = 0
    /\ send_result = "none"

\* No call in progress, for the specifications of the other components.
IdleSend ==
    /\ max_attempts = 1
    /\ attempt = 1
    /\ responses = <<>>
    /\ sleeps = 0
    /\ send_result = "none"

\* One iteration in which session.post raises RequestException: the last
\* attempt returns False, any other sleeps the backoff and continues.
PostRaises ==
    /\ send_result = "none"
    /\ responses' = Append(responses, RequestException)
    /\ IF LastAttempt(attempt)
         THEN /\ send_result' = "false"
              /\ UNCHANGED <<attempt, sleeps>>
         ELSE /\ sleeps' = sleeps + 1
              /\ attempt' = attempt + 1
              /\ UNCHANGED send_result
    /\ UNCHANGED <<notSendVars, max_attempts>>

\* One iteration in which the server answers: a status below 300 returns
\* True; a status that is not retried, or the last attempt, returns False;
\* otherwise the backoff is slept and the loop continues.
PostResponds ==
    /\ send_result = "none"
    /\ \E status_code \in Statuses :
         /\ responses' = Append(responses, status_code)
         /\ IF status_code < 300
              THEN /\ send_result' = "true"
                   /\ UNCHANGED <<attempt, sleeps>>
              ELSE IF ~ShouldRetry(status_code) \/ LastAttempt(attempt)
                THEN /\ send_result' = "false"
                     /\ UNCHANGED <<attempt, sleeps>>
                ELSE /\ sleeps' = sleeps + 1
                     /\ attempt' = attempt + 1
                     /\ UNCHANGED send_result
    /\ UNCHANGED <<notSendVars, max_attempts>>

NextSend ==
    \/ PostRaises
    \/ PostResponds

\* ========================================================================
\* CSVSink and FTPSink (src/edge/scr/sinks/csv.py, src/edge/scr/sinks/ftp.py)
\* ========================================================================

\* Largest number of handle_sample calls made on the sink.
MaxSamples == 3

\* Largest number of close() calls made on the sink.
MaxCloses == 2

\* The rotation keys CSVSink._rotation_key may return (two days).
Keys == {1, 2}

\* FTPSink.open / handle_sample / close return at once without a host.
FtpIgnored == fs_kind = "ftp" /\ ~ftp_host

\* CSVSink.handle_sample: the header row when the key has no stored
\* header, then the row, then the flush of the key's file.
CsvOpsAfterSample(key) ==
    csv_ops + (IF key \in csv_headers \/ ~csv_write_headers THEN 0 ELSE 1) + 2

\* _prepare_row: the three leading columns of every row.
FixedColumns == <<"timestamp", "timestamp_ns", "channel">>

\* _prepare_row: the columns a sample may add, in the order they are added:
\* a calibrated value, then a tag.
OptionalColumns == <<"value_valor", "tag_sensor">>

\* The sets of optional columns a sample may carry.
SampleFields == SUBSET {OptionalColumns[i] : i \in 1..Len(OptionalColumns)}

\* The samples of AcquisitionRunner._handle_block: all of one shape.
RunnerFields == {{OptionalColumns[i] : i \in 1..Len(OptionalColumns)}}

\* _prepare_row: the headers of a sample carrying `fields`.
PrepareRowHeaders(fields) ==
    FixedColumns \o SelectSeq(OptionalColumns, LAMBDA c : c \in fields)

\* Mutant of StoredHeaders: the header follows the latest sample.
StoredHeaders_Latest(stored, headers) == headers

\* handle_sample: the header of the key, stored from the first sample.
StoredHeaders(stored, headers) == IF stored = <<>> THEN headers ELSE stored

\* handle_sample: one cell per stored column, row_map.get(column) formatted:
\* the value of the column (written as the column's name) or blank.
RowValues(stored, fields) ==
    [i \in 1..Len(stored) |->
        IF InSeq(stored[i], PrepareRowHeaders(fields)) THEN stored[i] ELSE ""]

\* handle_sample: the rows in the key's file after a sample carrying
\* `fields`: the header row first when none was stored and headers are
\* written, then the row of values.
RowsAfterSample(rows, stored, fields) ==
    LET headers == PrepareRowHeaders(fields)
    IN  rows
          \o (IF stored = <<>> /\ csv_write_headers
                THEN <<[header |-> TRUE, cells |-> headers]>> ELSE <<>>)
          \o <<[header |-> FALSE,
                cells |-> RowValues(StoredHeaders(stored, headers), fields)]>>

\* CSVSink.close: a flush and a close for every open file.
CsvOpsAfterClose == csv_ops + 2 * Cardinality(csv_files)

\* CSVSink._ensure_writer: self._paths[key] = path; a key already in the
\* dict keeps its place.
PathsAfter(paths, key) == IF InSeq(key, paths) THEN paths ELSE Append(paths, key)

\* _upload_via_ftp / _upload_via_sftp, "for path in files": the files whose
\* transfer is started when the transfer of `fail` raises (NoneVal: none
\* does); the exception leaves the loop.
Transferred(files, fail) ==
    IF fail = NoneVal
      THEN files
      ELSE SubSeq(files, 1, CHOOSE i \in 1..Len(files) : files[i] = fail)

\* The files whose transfer may raise during a pass over `files`.
MayFail(files) == {NoneVal} \cup {k \in Keys : InSeq(k, files)}

\* FTPSink._upload_pending_files: nothing without files, else one pass
\* over the paths CSVSink.list_files returns, any exception logged.
UploadPending(files, uploads, fail) ==
    IF files = <<>>
      THEN uploads
      ELSE Append(uploads, [listed |-> files, started |-> Transferred(files, fail),
                            failed |-> fail])

\* A CSVSink as its constructor leaves it, with or without header rows,
\* fed samples of every shape.
InitCsv ==
    /\ fs_kind = "csv"
    /\ ftp_host = FALSE
    /\ ftp_periodic = FALSE
    /\ csv_files = {}
    /\ csv_paths = <<>>
    /\ csv_headers = {}
    /\ csv_ops = 0
    /\ ftp_uploads = <<>>
    /\ fs_samples = 0
    /\ fs_closes = 0
    /\ fs_last = "none"
    /\ csv_write_headers \in BOOLEAN
    /\ csv_stored = [k \in Keys |-> <<>>]
    /\ csv_rows = [k \in Keys |-> <<>>]
    /\ fs_fields = SampleFields

\* A sink as its constructor leaves it, fed the runner's samples.
InitFiles ==
    /\ fs_kind \in {"csv", "ftp"}
    /\ ftp_host \in BOOLEAN
    /\ ftp_periodic \in BOOLEAN
    /\ (fs_kind = "csv" => ~ftp_host /\ ~ftp_periodic)
    /\ csv_files = {}
    /\ csv_paths = <<>>
    /\ csv_headers = {}
    /\ csv_ops = 0
    /\ ftp_uploads = <<>>
    /\ fs_samples = 0
    /\ fs_closes = 0
    /\ fs_last = "none"
    /\ csv_write_headers = TRUE
    /\ csv_stored = [k \in Keys |-> <<>>]
    /\ csv_rows = [k \in Keys |-> <<>>]
    /\ fs_fields = RunnerFields

\* No sink under study, for the specifications of the other components.
IdleFiles ==
    /\ fs_kind = "csv"
    /\ ftp_host = FALSE
    /\ ftp_periodic = FALSE
    /\ csv_files = {}
    /\ csv_paths = <<>>
    /\ csv_headers = {}
    /\ csv_ops = 0
    /\ ftp_uploads = <<>>
    /\ fs_samples = 0
    /\ fs_closes = 0
    /\ fs_last = "none"
    /\ csv_write_headers = TRUE
    /\ csv_stored = [k \in Keys |-> <<>>]
    /\ csv_rows = [k \in Keys |-> <<>>]
    /\ fs_fields = RunnerFields

\* CSVSink.open / FTPSink.open: only the local directory is created.
SinkOpen ==
    /\ fs_last = "none"
    /\ fs_last' = "open"
    /\ UNCHANGED <<notFileVars, fs_kind, ftp_host, ftp_periodic, csv_files, csv_paths,
                   csv_headers, csv_ops, ftp_uploads, fs_samples, fs_closes,
                   csv_write_headers, csv_stored, csv_rows, fs_fields>>

\* CSVSink.handle_sample / FTPSink.handle_sample for a sample of rotation
\* key `key` carrying the optional columns `fields`; `elapsed` tells whether
\* the upload interval has passed.
SinkHandleSample ==
    /\ fs_last \in {"open", "sample"}
    /\ fs_samples < MaxSamples
    /\ \E key \in Keys, elapsed \in BOOLEAN, fields \in fs_fields :
         IF FtpIgnored
           THEN UNCHANGED <<csv_files, csv_paths, csv_headers, csv_ops, ftp_uploads,
                            csv_stored, csv_rows>>
           ELSE /\ csv_files' = csv_files \cup {key}
                /\ csv_stored' = [csv_stored EXCEPT
                                    ![key] = StoredHeaders(@, PrepareRowHeaders(fields))]
                /\ csv_rows' = [csv_rows EXCEPT
                                  ![key] = RowsAfterSample(@, csv_stored[key], fields)]
                /\ csv_paths' = PathsAfter(csv_paths, key)
                /\ csv_headers' = csv_headers \cup {key}
                /\ IF fs_kind = "ftp" /\ ftp_periodic /\ elapsed
                     THEN /\ csv_ops' = CsvOpsAfterSample(key)
                                          + Cardinality(csv_files \cup {key})
                          /\ \E fail \in MayFail(PathsAfter(csv_paths, key)) :
                               ftp_uploads' = UploadPending(PathsAfter(csv_paths, key),
                                                            ftp_uploads, fail)
                     ELSE /\ csv_ops' = CsvOpsAfterSample(key)
                          /\ UNCHANGED ftp_uploads
    /\ fs_samples' = fs_samples + 1
    /\ fs_last' = "sample"
    /\ UNCHANGED <<notFileVars, fs_kind, ftp_host, ftp_periodic, fs_closes,
                   csv_write_headers, fs_fields>>

\* CSVSink.close / FTPSink.close: every open file is flushed and closed and
\* _files and _writers are cleared (_paths and _headers are kept); FTPSink
\* then runs _upload_pending_files.
SinkClose ==
    /\ fs_last # "none"
    /\ fs_closes < MaxCloses
    /\ IF FtpIgnored
         THEN UNCHANGED <<csv_files, csv_ops, ftp_uploads>>
         ELSE /\ csv_files' = {}
              /\ csv_ops' = CsvOpsAfterClose
              /\ IF fs_kind = "ftp"
                   THEN \E fail \in MayFail(csv_paths) :
                          ftp_uploads' = UploadPending(csv_paths, ftp_uploads, fail)
                   ELSE UNCHANGED ftp_uploads
    /\ fs_closes' = fs_closes + 1
    /\ fs_last' = "close"
    /\ UNCHANGED <<notFileVars, fs_kind, ftp_host, ftp_periodic, csv_paths, csv_headers,
                   fs_samples, csv_write_headers, csv_stored, csv_rows, fs_fields>>

NextFiles ==
    \/ SinkOpen
    \/ SinkHandleSample
    \/ SinkClose

\* ========================================================================
\* stream_preview (src/edge/scr/preview.py)
\* ========================================================================

\* Largest number of items put on the queue stream_preview reads.
MaxStreamPuts == 3

\* Numbers of timestamps in the blocks put on that queue.
StreamLengths == {0, 1, 2}

\* Values of opts.normalized_downsample().
StreamSteps == {1, 2}

\* First timestamps of the blocks put on that queue.
StreamStarts == {0, 1, 2}

\* Duration limits in nanoseconds (opts.max_duration_s * 1e9), NoneVal for
\* no limit.
StreamLimits == {NoneVal, 1, 2}

\* The None that closes the stream.
StreamSentinel == [none |-> TRUE, ts |-> <<>>, has |-> FALSE]

\* What the queue may hold: the sentinel, a calibrated block with its
\* timestamps (one nanosecond apart) and values of a selected channel, or a
\* block with values of no selected channel.
StreamItems ==
    {StreamSentinel}
        \cup {[none |-> FALSE, ts |-> [i \in 1..n |-> t + i - 1], has |-> TRUE] :
                 t \in StreamStarts, n \in StreamLengths}
        \cup {[none |-> FALSE, ts |-> <<t>>, has |-> FALSE] : t \in {0}}

\* block.timestamps_ns[::downsample].
Downsample(ts, step) ==
    [i \in 1..((Len(ts) + step - 1) \div step) |-> ts[(i - 1) * step + 1]]

\* _filter_block returns None: no timestamp or no selected channel left.
Filtered(item, step) == Downsample(item.ts, step) = <<>> \/ ~item.has

\* Mutant of DurationReached: the limit itself does not stop the stream.
DurationReached_Strict(last, start, limit) == last - start > limit

\* delivered_duration_ns >= opts.max_duration_s * 1e9.
DurationReached(last, start, limit) == last - start >= limit

\* stream_preview has just been called; the queue is empty.
InitStream ==
    /\ st_max \in StreamLimits
    /\ st_down \in StreamSteps
    /\ st_queue = <<>>
    /\ st_puts = 0
    /\ st_pc = "get"
    /\ st_start = NoneVal
    /\ st_last = <<>>
    /\ st_first = NoneVal
    /\ st_frames = 0
    /\ st_end = "none"

\* No stream under study, for the specifications of the other components.
IdleStream ==
    /\ st_max = NoneVal
    /\ st_down = 1
    /\ st_queue = <<>>
    /\ st_puts = 0
    /\ st_pc = "get"
    /\ st_start = NoneVal
    /\ st_last = <<>>
    /\ st_first = NoneVal
    /\ st_frames = 0
    /\ st_end = "none"

\* The producer side: an item is put on the queue.
StreamPut ==
    /\ st_puts < MaxStreamPuts
    /\ \E item \in StreamItems : st_queue' = Append(st_queue, item)
    /\ st_puts' = st_puts + 1
    /\ UNCHANGED <<notStreamVars, st_max, st_down, st_pc, st_start, st_last, st_first,
                   st_frames, st_end>>

\* "block = await queue.get()" returns: None leaves the loop; a block that
\* filters to nothing is skipped; any other block is yielded as a frame.
StreamGet ==
    /\ st_pc = "get"
    /\ st_queue # <<>>
    /\ st_queue' = Tail(st_queue)
    /\ LET item == Head(st_queue)
           timestamps == Downsample(item.ts, st_down)
       IN  IF item.none
             THEN /\ st_pc' = "done"
                  /\ st_end' = "sentinel"
                  /\ UNCHANGED <<st_last, st_first, st_frames>>
             ELSE IF Filtered(item, st_down)
               THEN UNCHANGED <<st_pc, st_end, st_last, st_first, st_frames>>
               ELSE /\ st_pc' = "yielded"
                    /\ st_last' = timestamps
                    /\ st_first' = IF st_frames = 0 THEN timestamps[1] ELSE st_first
                    /\ st_frames' = st_frames + 1
                    /\ UNCHANGED st_end
    /\ UNCHANGED <<notStreamVars, st_max, st_down, st_puts, st_start>>

\* The consumer asks for the next frame and the generator resumes after
\* its yield: with a limit, start_ts_ns is set from the first frame and the
\* loop is left once the delivered duration reaches the limit.
StreamResume ==
    /\ st_pc = "yielded"
    /\ IF st_max = NoneVal
         THEN /\ st_pc' = "get"
              /\ UNCHANGED <<st_start, st_end>>
         ELSE LET start == IF st_start = NoneVal THEN st_last[1] ELSE st_start
              IN  /\ st_start' = start
                  /\ IF DurationReached(st_last[Len(st_last)], start, st_max)
                       THEN st_pc' = "done" /\ st_end' = "duration"
                       ELSE st_pc' = "get" /\ UNCHANGED st_end
    /\ UNCHANGED <<notStreamVars, st_max, st_down, st_queue, st_puts, st_last, st_first,
                   st_frames>>

NextStream ==
    \/ StreamPut
    \/ StreamGet
    \/ StreamResume

\* ========================================================================
\* Line protocol (src/edge/scr/sinks/influx.py)
\* ========================================================================

\* Every tag key of this model, in the order sorted() gives them.
SortedKeys == <<"canal", "channel", "pi", "sensor", "unidad">>

\* Station ids, sensor names and units of the configuration; none holds a
\* character that _escape_key rewrites.
StationIds == {"station-01", "station-02"}
SensorNames == {"LVDT", "PT100"}
Units == {"mm", "V"}

\* Channel indices of the configuration.
ChannelIndices == {0, 1}

\* Calibrated values and timestamps of the samples.
SampleValues == {0, 1, 2}
SampleTimestamps == {0, 1, 1000000000}

\* What _handle_block has at hand for one sample of one channel.
RunnerSamples ==
    [station : StationIds, index : ChannelIndices, name : SensorNames, unit : Units,
     value : SampleValues, ts : SampleTimestamps]

\* _handle_block: the Sample built for it, metadata["tags"] included.
RunnerSample(s) ==
    [channel |-> s.index,
     timestamp_ns |-> s.ts,
     calibrated_values |-> <<<<"valor", s.value>>>>,
     measurement |-> "lvdt",
     tags |-> [k \in {"pi", "sensor", "unidad", "canal"} |->
                  CASE k = "pi" -> <<"str", s.station>>
                    [] k = "sensor" -> <<"str", s.name>>
                    [] k = "unidad" -> <<"str", s.unit>>
                    [] k = "canal" -> <<"int", s.index>>]]

\* sample_to_line: tags starts as {"channel": sample.channel} and every
\* entry of metadata["tags"] is then set in it.
LineTags(sample) ==
    [k \in {"channel"} \cup DOMAIN sample.tags |->
        IF k \in DOMAIN sample.tags THEN sample.tags[k] ELSE <<"int", sample.channel>>]

\* to_line: "k=v" for every tag in sorted key order.
TagsPayload(tags) ==
    LET keys == SelectSeq(SortedKeys, LAMBDA k : k \in DOMAIN tags)
    IN  [i \in 1..Len(keys) |-> <<keys[i], tags[keys[i]][2]>>]

\* to_line: "k=v" for every field in dict order, floats as format(v, ".15g").
FieldsPayload(fields) == [i \in 1..Len(fields) |-> <<fields[i][1], <<"float", fields[i][2]>>>>]

\* sample_to_line followed by to_line: the parts of the line in order.
SampleToLine(sample) ==
    [measurement |-> sample.measurement,
     tags |-> TagsPayload(LineTags(sample)),
     fields |-> FieldsPayload(sample.calibrated_values),
     ts |-> sample.timestamp_ns]

\* No line yet.
NoLine == [measurement |-> "", tags |-> <<>>, fields |-> <<>>, ts |-> 0]

\* A sample of the runner about to be handed to InfluxSender.handle_sample.
InitLine ==
    /\ ln_sample \in RunnerSamples
    /\ ln_done = FALSE
    /\ ln_line = NoLine

\* No sample under study, for the specifications of the other components.
IdleLine ==
    /\ ln_sample = [station |-> "station-01", index |-> 0, name |-> "LVDT", unit |-> "mm",
                    value |-> 0, ts |-> 0]
    /\ ln_done = FALSE
    /\ ln_line = NoLine

\* InfluxSender.handle_sample: line = sample_to_line(sample).
HandleSampleLine ==
    /\ ~ln_done
    /\ ln_line' = SampleToLine(RunnerSample(ln_sample))
    /\ ln_done' = TRUE
    /\ UNCHANGED <<notLineVars, ln_sample>>

NextLine ==
    \/ HandleSampleLine

\* ========================================================================

\* Configuration loading (src/edge/config/schema.py)
\* ========================================================================

\* Values of sample_rate_hz and of block_size in the file.
LoadNumbers == {-1, 0, 1}

\* Channel indices in the file.
LoadIndices == {0, 1}

\* Voltage ranges in the file, both known to RANGE_MAP.
LoadRanges == {5, 10}

\* Largest number of channels in the file.
MaxChannels == 2

\* The channel lists of the file.
LoadChannels ==
    UNION {[1..n -> [index : LoadIndices, range : LoadRanges]] : n \in 0..MaxChannels}

\* StationConfig.from_mapping, the loop over `seen`: two channels share an
\* index.
DuplicateIndex(channels) ==
    \E i, j \in 1..Len(channels) : i < j /\ channels[i].index = channels[j].index

\* resolve_input_range: more than one range is requested.
MixedRanges(channels) ==
    \E i, j \in 1..Len(channels) : channels[i].range # channels[j].range

\* load_station_config -> StationConfig.from_mapping: ValueError for a
\* sample rate or block size that is not positive and for a duplicate
\* channel index; otherwise the StationConfig.
FromMapping(rate, block, channels) ==
    IF rate <= 0 THEN "rejected"
    ELSE IF block <= 0 THEN "rejected"
    ELSE IF DuplicateIndex(channels) THEN "rejected"
    ELSE "loaded"

\* A station file on disk, not yet loaded.
InitLoad ==
    /\ ld_rate \in LoadNumbers
    /\ ld_block \in LoadNumbers
    /\ ld_channels \in LoadChannels
    /\ ld_result = "none"
    /\ ld_session = "none"

\* No station file under study, for the specifications of the other
\* components.
IdleLoad ==
    /\ ld_rate = 1
    /\ ld_block = 1
    /\ ld_channels = <<>>
    /\ ld_result = "none"
    /\ ld_session = "none"

\* start_session: load_station_config; a ValueError leaves start_session,
\* otherwise the session is created and its thread started.
StartSessionLoads ==
    /\ ld_result = "none"
    /\ ld_result' = FromMapping(ld_rate, ld_block, ld_channels)
    /\ ld_session' = IF ld_result' = "loaded" THEN "started" ELSE "none"
    /\ UNCHANGED <<notLoadVars, ld_rate, ld_block, ld_channels>>

\* run() on the session's thread up to start_scan: it returns when there
\* are no channels; resolve_input_range raises ValueError for mixed ranges
\* and the session fails; otherwise the scan is started.
RunStartsScan ==
    /\ ld_session = "started"
    /\ ld_session' = IF ld_channels = <<>> THEN "finished"
                     ELSE IF MixedRanges(ld_channels) THEN "failed"
                     ELSE "scanning"
    /\ UNCHANGED <<notLoadVars, ld_rate, ld_block, ld_channels, ld_result>>

NextLoad ==
    \/ StartSessionLoads
    \/ RunStartsScan

\* ========================================================================

\* Retry backoff (src/edge/scr/sinks/influx.py, _compute_backoff)
\* ========================================================================

\* retry.base_delay_s values explored, in units of time (>= 0 by
\* RetrySettings.from_mapping).
BaseDelays == {0, 1, 2, 3}

\* retry.max_backoff_s values explored: None, or a number >= 0.
MaxBackoffs == {NoneVal, 0, 1, 3, 5}

Min(a, b) == IF a <= b THEN a ELSE b

\* Python truth value of an optional number: None and 0 are both false.
Truthy(x) == x # NoneVal /\ x # 0

\* "min(x, self.max_backoff) if self.max_backoff else x".
Clamp(x, maxb) == IF Truthy(maxb) THEN Min(x, maxb) ELSE x

\* What random.uniform(0, self.base_backoff) may return, or 0.0 when
\* base_backoff is 0.
Jitters(base) == IF Truthy(base) THEN 0..base ELSE {0}

\* _compute_backoff(attempt) with the jitter drawn.
ComputeBackoff(base, maxb, n, jitter) ==
    Clamp(Clamp(base * 2 ^ (n - 1), maxb) + jitter, maxb)

InitBackoff ==
    /\ base_backoff \in BaseDelays
    /\ max_backoff \in MaxBackoffs
    /\ bk_attempt = 0
    /\ bk_jitter = 0
    /\ bk_total = 0

\* No delay computed, for the specifications of the other components.
IdleBackoff ==
    /\ base_backoff = 1
    /\ max_backoff = NoneVal
    /\ bk_attempt = 0
    /\ bk_jitter = 0
    /\ bk_total = 0

\* One call of _compute_backoff(attempt).
ComputeBackoffCall ==
    \E n \in 1..MaxAttempts, jitter \in Jitters(base_backoff) :
       /\ bk_attempt' = n
       /\ bk_jitter' = jitter
       /\ bk_total' = ComputeBackoff(base_backoff, max_backoff, n, jitter)
       /\ UNCHANGED <<notBackoffVars, base_backoff, max_backoff>>

NextBackoff ==
    \/ ComputeBackoffCall

\* ========================================================================

\* Specifications
\* ========================================================================

InitSpecInflux == InitInflux /\ IdleRunner /\ InitManager /\ IdleSend /\ IdleFiles /\ IdleStream /\ IdleLoad /\ IdleLine /\ IdleBackoff /\ IdleStatus

SpecInflux == InitSpecInflux /\ [][NextInflux]_vars

\* The worker is a thread of its own: the scheduler runs it, and q.get
\* returns within its one-second timeout.
WorkerStep == WorkerLoop \/ WorkerGet \/ WorkerDrain \/ WorkerSend

\* An enqueue call in progress runs in the runner's thread and makes only
\* non-blocking queue calls, so it is scheduled until it returns.
EnqueueStep == PutWithOverflowPolicy \/ DropOldest

FairSpecInflux ==
    InitSpecInflux /\ [][NextInflux]_vars /\ WF_vars(WorkerStep) /\ WF_vars(EnqueueStep)

InitSpecRunner == InitRunner /\ IdleInflux /\ InitManager /\ IdleSend /\ IdleFiles /\ IdleStream /\ IdleLoad /\ IdleLine /\ IdleBackoff /\ IdleStatus

SpecRunner == InitSpecRunner /\ [][NextRunner]_vars

InitSpecDispatch == InitDispatch /\ IdleInflux /\ InitManager /\ IdleSend /\ IdleFiles /\ IdleStream /\ IdleLoad /\ IdleLine /\ IdleBackoff /\ IdleStatus

SpecDispatch == InitSpecDispatch /\ [][NextRunner]_vars

InitSpecTestMode == InitTestMode /\ IdleInflux /\ InitManager /\ IdleSend /\ IdleFiles /\ IdleStream /\ IdleLoad /\ IdleLine /\ IdleBackoff /\ IdleStatus

SpecTestMode == InitSpecTestMode /\ [][NextRunner]_vars

InitSpecSession == InitSession /\ IdleInflux /\ InitManager /\ IdleSend /\ IdleFiles /\ IdleStream /\ IdleLoad /\ IdleLine /\ IdleBackoff /\ IdleStatus

SpecSession == InitSpecSession /\ [][NextSession]_vars

InitSpecPreview == InitPreview /\ IdleInflux /\ InitManager /\ IdleSend /\ IdleFiles /\ IdleStream /\ IdleLoad /\ IdleLine /\ IdleBackoff /\ IdleStatus

\* The event loop keeps running what is ready on it: the _put callbacks it
\* was handed and the subscriber's task when the queue holds an item.
EventLoopStep == LoopRunsPut \/ PreviewGet

FairSpecPreview == InitSpecPreview /\ [][NextPreview]_vars /\ WF_vars(EventLoopStep)

InitSpecPreviewQueue == InitPreview /\ IdleInflux /\ InitManager /\ IdleSend /\ IdleFiles /\ IdleStream /\ IdleLoad /\ IdleLine /\ IdleBackoff /\ IdleStatus

SpecPreviewQueue == InitSpecPreviewQueue /\ [][NextPreviewQueue]_vars

InitSpecManager == InitManager /\ IdleInflux /\ IdleRunner /\ IdleSend /\ IdleFiles /\ IdleStream /\ IdleLoad /\ IdleLine /\ IdleBackoff /\ IdleStatus

SpecManager == InitSpecManager /\ [][NextManager]_vars

\* The thread that runs session.stop() for stop_session is scheduled; the
\* runner threads are not assumed to make progress.
StopStep ==
    \/ ManagerStopRequest
    \/ ManagerStopWaitReturns
    \/ ManagerStopWaitTimeout
    \/ ManagerStopJoinReturns
    \/ ManagerStopJoinTimeout
    \/ ManagerStopFinalize
    \/ StopSessionEnd

FairSpecManager == InitSpecManager /\ [][NextManager]_vars /\ WF_vars(StopStep)

InitSpecSubscribers == InitManager /\ IdleInflux /\ IdleRunner /\ IdleSend /\ IdleFiles /\ IdleStream /\ IdleLoad /\ IdleLine /\ IdleBackoff /\ IdleStatus

SpecSubscribers == InitSpecSubscribers /\ [][NextSubscribers]_vars

InitSpecSend == InitSend /\ IdleInflux /\ IdleRunner /\ InitManager /\ IdleFiles /\ IdleStream /\ IdleLoad /\ IdleLine /\ IdleBackoff /\ IdleStatus

SpecSend == InitSpecSend /\ [][NextSend]_vars

InitSpecFiles == InitFiles /\ IdleInflux /\ IdleRunner /\ InitManager /\ IdleSend /\ IdleStream /\ IdleLoad /\ IdleLine /\ IdleBackoff /\ IdleStatus

SpecFiles == InitSpecFiles /\ [][NextFiles]_vars

InitSpecCsv == InitCsv /\ IdleInflux /\ IdleRunner /\ InitManager /\ IdleSend /\ IdleStream /\ IdleLoad /\ IdleLine /\ IdleBackoff /\ IdleStatus

InitSpecLoad == InitLoad /\ IdleInflux /\ IdleRunner /\ InitManager /\ IdleSend /\ IdleFiles /\ IdleStream /\ IdleLine /\ IdleBackoff /\ IdleStatus

SpecLoad == InitSpecLoad /\ [][NextLoad]_vars

InitSpecLine == InitLine /\ IdleInflux /\ IdleRunner /\ InitManager /\ IdleSend /\ IdleFiles /\ IdleStream /\ IdleLoad /\ IdleBackoff /\ IdleStatus

SpecLine == InitSpecLine /\ [][NextLine]_vars

InitSpecBackoff == InitBackoff /\ IdleInflux /\ IdleRunner /\ InitManager /\ IdleSend /\ IdleFiles /\ IdleStream /\ IdleLoad /\ IdleLine /\ IdleStatus

SpecBackoff == InitSpecBackoff /\ [][NextBackoff]_vars

InitSpecStatus == InitManager /\ IdleInflux /\ IdleRunner /\ IdleSend /\ IdleFiles /\ IdleStream /\ IdleLoad /\ IdleLine /\ IdleBackoff /\ IdleStatus

SpecStatus == InitSpecStatus /\ [][NextStatus]_vars

InitSpecStream == InitStream /\ IdleInflux /\ IdleRunner /\ InitManager /\ IdleSend /\ IdleFiles /\ IdleLoad /\ IdleLine /\ IdleBackoff /\ IdleStatus

\* The subscriber's task runs when the queue holds an item, and the
\* consumer of the generator keeps asking for the next frame.
StreamStep == StreamGet \/ StreamResume

FairSpecStream == InitSpecStream /\ [][NextStream]_vars /\ WF_vars(StreamStep)

SpecCsv == InitSpecCsv /\ [][NextFiles]_vars

\* ========================================================================
\* Properties
\* ========================================================================

\* The worker thread has left runner.run (returned or raised).
RunEnded == pc \in {"t_after_run", "t_finished_at", "t_close", "t_set_event",
                    "t_return", "t_exit"}

\* _runner has recorded the outcome of runner.run in the session.
OutcomeRecorded == pc \in {"t_finished_at", "t_close", "t_set_event", "t_return", "t_exit"}

\* The sinks whose open() returned.
OpenedSinks == {s \in Sinks : sink_open[s] = "ok"}

\* Samples of channel c that sink s has handled.
Delivered(s, c) ==
    Cardinality({i \in 1..Len(sink_rx[s]) : sink_rx[s][i][1] = c})

\* Sentinels handed to the preview channel: put into the queue, or in a
\* callback the loop has yet to run.
SentinelsHanded ==
    pq_sentinels + Cardinality({i \in 1..Len(pq_pending) : pq_pending[i][1] = Sentinel})

\* Sessions whose thread has not yet come back from runner.run.
ThreadsInRun == {s \in 1..m_created : m_sessions[s].thread \in {"started", "run"}}

\* ------------------------------------------------------------------------
\* C1: after any sequence of start_session and stop_session calls, including
\* a stop_session whose bounded wait expires because the runner thread has
\* not yet returned from run(), at most one runner thread is live. Stated for
\* the threads still inside run(), the ones the claim is about; the code
\* does not keep it.
C1_AtMostOneLiveRunner == Cardinality(ThreadsInRun) <= 1

\* ------------------------------------------------------------------------
\* C2: the preview channel of a preview-enabled session receives the
\* sentinel exactly once: never more than one, and exactly one when the
\* thread has ended, stop() is not in progress and the loop has run every
\* callback. The code does not keep it.
C2_SentinelExactlyOnce ==
    preview_enabled =>
        /\ pq_sentinels <= 1
        /\ (pc = "t_exit" /\ pq_pending = <<>> /\ s_pc \in {"idle", "returned"})
              => pq_sentinels = 1

\* ------------------------------------------------------------------------
\* C3: for every channel the timestamps of the samples handed to a sink are
\* strictly increasing over the whole session, across blocks as well,
\* whatever the drift threshold and the wall clock. The code does not keep it.
C3_TimestampsStrictlyIncreasing ==
    \A s \in Sinks : \A i, j \in 1..Len(sink_rx[s]) :
        (i < j /\ sink_rx[s][i][1] = sink_rx[s][j][1])
            => sink_rx[s][i][2] < sink_rx[s][j][2]

\* ------------------------------------------------------------------------
\* C4: in timed mode with total_samples = T no sink is ever handed more than
\* T samples of a channel; once T samples of a channel were delivered the
\* runner is neither at the head of the loop nor in a read; and a run ended
\* by the budget has delivered exactly T samples per channel to every sink.
C4_BudgetExact ==
    (ActualMode = "timed" /\ total_samples # NoneVal) =>
        \A s \in OpenedSinks : \A c \in 1..n_channels :
            /\ Delivered(s, c) <= total_samples
            /\ Delivered(s, c) = total_samples => pc \notin {"loop", "read"}
            /\ exit_reason = "budget" => Delivered(s, c) = total_samples

\* C4 witness: the budget ended the run, the last block was cut, and a sink
\* holds exactly T samples of the last channel.
C4_Witness ==
    /\ ActualMode = "timed"
    /\ total_samples = MaxTotal
    /\ exit_reason = "budget"
    /\ RunEnded
    /\ last_read.delivered < last_read.len
    /\ \E s \in OpenedSinks : Delivered(s, n_channels) = total_samples

\* ------------------------------------------------------------------------
\* C5: start_session while a session is active answers 409 and changes
\* nothing: no session, runner or thread is created, and the slot, the
\* sessions (their preview queues included) and the last summary stay as
\* they were.
C5_StartWhileActiveConflicts ==
    [][(StartSession /\ m_session # 0 /\ SessionIsActive(m_sessions[m_session]))
          => /\ m_resp' = [op |-> "start", code |-> 409]
             /\ m_created' = m_created
             /\ m_sessions' = m_sessions
             /\ m_session' = m_session
             /\ m_last_summary' = m_last_summary]_vars

\* C5 witness: the last response is the conflict of a start, and the session
\* in the slot is still running with its thread inside run().
C5_Witness ==
    /\ m_resp = [op |-> "start", code |-> 409]
    /\ m_session # 0
    /\ m_sessions[m_session].thread = "run"
    /\ m_sessions[m_session].status = "running"
    /\ m_sessions[m_session].preview
    /\ ~m_sessions[m_session].pq_closed

\* ------------------------------------------------------------------------
\* C6: stop_session with no active session (an empty slot, or a session
\* whose thread finished on its own) answers 409 and stops nothing: the lock
\* is released, no session is asked to stop or changes status, and the last
\* summary is kept, or is the summary of the session that finished on its
\* own, never a "stopped" result.
C6_StopWithoutActiveConflicts ==
    [][(StopSessionBegin /\ (m_session = 0 \/ ~SessionIsActive(m_sessions[m_session])))
          => /\ m_resp' = [op |-> "stop", code |-> 409]
             /\ m_session' = 0
             /\ m_lock' = "free"
             /\ \A s \in 1..m_created :
                  /\ m_sessions'[s].stop_requested = m_sessions[s].stop_requested
                  /\ m_sessions'[s].status = m_sessions[s].status
             /\ IF m_session = 0
                  THEN m_last_summary' = m_last_summary
                  ELSE /\ m_last_summary'.id = m_session
                       /\ m_last_summary'.status \in {"finished", "failed"}]_vars

\* C6 witness: a stop answered 409 after a successful stop, whose summary is
\* still the recorded one.
C6_Witness ==
    /\ m_resp = [op |-> "stop", code |-> 409]
    /\ m_session = 0
    /\ m_lock = "free"
    /\ m_last_summary.status = "stopped"

\* ------------------------------------------------------------------------
\* C7: only a sink whose open() returned is ever handed a sample, and once
\* run() has ended, on whichever path, close() was called on every such
\* sink.
C7_SinksOpenedAndClosed ==
    \A s \in Sinks :
        /\ sink_rx[s] # <<>> => sink_open[s] = "ok"
        /\ sink_closed[s] > 0 => sink_open[s] = "ok"
        /\ (RunEnded /\ sink_open[s] = "ok") => sink_closed[s] = 1

\* C7 witness: read_block raised after a block was delivered; the sink that
\* had opened was closed and the one whose open() raised was left alone.
C7_Witness ==
    /\ RunEnded
    /\ exit_reason = "read_failed"
    /\ \E s \in Sinks : sink_open[s] = "ok" /\ sink_rx[s] # <<>> /\ sink_closed[s] = 1
    /\ \E s \in Sinks : sink_open[s] = "failed" /\ sink_closed[s] = 0

\* What C8 promises of a session whose read failed.
FatalOutcome ==
    /\ \A s \in OpenedSinks : sink_closed[s] = 1
    /\ scan_stops = 1
    /\ scan_cleanups = 1
    /\ preview_enabled => SentinelsHanded >= 1
    /\ raised # "none"
    /\ status = "failed"
    /\ error = raised

\* ------------------------------------------------------------------------
\* C8: a read that fails, by an overrun or by a driver timeout, is fatal:
\* when the thread has recorded the outcome the sinks are closed, the scan
\* stopped and cleaned up, the sentinel handed to the preview channel in test
\* mode, run() has ended with the error and the session is "failed" with the
\* error string. The code keeps it for an overrun but not for a timeout.
C8_ReadFailureIsFatal ==
    (OutcomeRecorded /\ (exit_reason = "read_failed" \/ timeout_seen)) => FatalOutcome

\* C8, the part the code keeps: when read_block raises, the outcome is the
\* fatal one.
C8_RaiseIsFatal ==
    (OutcomeRecorded /\ exit_reason = "read_failed") => FatalOutcome

\* ------------------------------------------------------------------------
\* C9: once request_stop() was called the loop starts no read: from the head
\* of the loop run() goes to its finally clause; and a read in progress when
\* the stop was requested still hands every active sink the whole block
\* (every sample the budget admits) of every channel.
C9_StopAfterCurrentBlock ==
    [][/\ (stop_requested /\ pc = "loop")
            => (pc' = "run_finally" /\ exit_reason' = "stop")
       /\ (stop_requested /\ pc # "read") => pc' # "read"
       /\ (stop_requested /\ pc = "read" /\ pc' # "read" /\ raised' = "none")
            => \A i \in 1..Len(active_sinks) :
                 Len(sink_rx'[active_sinks[i]]) - Len(sink_rx[active_sinks[i]])
                   = n_channels *
                       (IF remaining_samples # NoneVal
                             /\ remaining_samples < last_read'.len
                          THEN remaining_samples
                          ELSE last_read'.len)]_vars

\* C9 witness: the stop was requested during the read of the second block;
\* the block was delivered whole and the loop then ended on the stop flag.
C9_Witness ==
    /\ stop_requested
    /\ exit_reason = "stop"
    /\ RunEnded
    /\ consumed = 2 * block_size
    /\ last_read = [len |-> block_size, delivered |-> block_size, stop_pending |-> TRUE]
    /\ \E s \in OpenedSinks : Delivered(s, 1) = consumed

\* ------------------------------------------------------------------------
\* C10: in every reachable state of the Database Sink, under any
\* interleaving of producer enqueues and worker dequeues, the number of
\* lines held in the queue is at most queue_max_size.
C10_QueueBounded == Len(q) <= queue_max_size

\* C10 witness: the producer found the queue full, evicted the oldest line
\* and put its own line, and the queue is at capacity again.
C10_Witness ==
    /\ Len(q) = queue_max_size
    /\ dropped # <<>>
    /\ enq_pc = "idle"
    /\ q[Len(q)] = produced

\* ------------------------------------------------------------------------
\* C11: an enqueue that finds the queue full, with no worker dequeue while
\* it runs, evicts exactly the oldest line and appends the new one at the
\* tail: on return the queue holds queue_max_size lines, the previous
\* contents without their head followed by the new line, and exactly one
\* warning was logged.
C11_FullQueueEvictsOldest ==
    [][(enq_pc # "idle" /\ enq_pc' = "idle" /\ ~enq_touched
            /\ Len(enq_start) = queue_max_size)
          => /\ q' = Append(Tail(enq_start), enq_line)
             /\ Len(q') = queue_max_size
             /\ dropped' # <<>> /\ dropped'[Len(dropped')] = Head(enq_start)
             /\ enq_warnings' = 1]_vars

\* C11 witness: a queue of at least two lines was full, no worker step
\* interfered, and the call returned with the head gone and the new line
\* last.
C11_Witness ==
    /\ enq_pc = "idle"
    /\ queue_max_size >= 2
    /\ Len(enq_start) = queue_max_size
    /\ ~enq_touched
    /\ q = Append(Tail(enq_start), produced)
    /\ enq_warnings = 1

\* ------------------------------------------------------------------------
\* C12: enqueue never blocks and returns after a bounded number of put and
\* evict steps whatever the worker does: a call in progress always has its
\* next step enabled and makes at most four queue operations.
C12_EnqueueNeverBlocks ==
    /\ enq_steps <= 4
    /\ (enq_pc = "put" => ENABLED PutWithOverflowPolicy)
    /\ (enq_pc = "drop" => ENABLED DropOldest)

\* C12 witness: a call that needed all four operations (put, put, evict,
\* put) has returned.
C12_Witness ==
    /\ enq_pc = "idle"
    /\ enq_steps = 4
    /\ q # <<>>
    /\ q[Len(q)] = produced

\* ------------------------------------------------------------------------
\* C15: a batch whose send failed is dropped: its lines are never put back
\* in the queue or in a later batch and are never sent; the worker goes
\* back to its loop, and while the sink is not closed it eventually takes
\* a new batch from the lines still queued and hands it to the send.
C15_FailedBatchIsDropped ==
    /\ [](\A i \in 1..Len(failed) :
            /\ ~InSeq(failed[i], q)
            /\ ~InSeq(failed[i], lines)
            /\ ~InSeq(failed[i], sent)
            /\ \A j \in 1..Len(failed) : failed[j] = failed[i] => j = i)
    /\ [][(w_pc = "send" /\ failed' # failed)
             => (w_pc' = "loop" /\ lines' = <<>> /\ q' = q)]_vars
    /\ (failed # <<>> /\ q # <<>> /\ lines = <<>>)
           ~> ((w_pc = "send" /\ lines # <<>>) \/ stop)

\* C15 witness: a batch failed and a line enqueued after it was sent.
C15_Witness ==
    /\ failed # <<>>
    /\ sent # <<>>
    /\ sent[Len(sent)] > failed[Len(failed)]
    /\ ~stop

\* ------------------------------------------------------------------------
\* C16: an exception from one sink's handle_sample does not unwind the scan
\* loop: every step that delivers a block appends the block's samples, all
\* of them and in dispatch order, to every active sink, whether or not a
\* sink raises on it or raised on an earlier block, and raises nothing.
C16_SinkFaultIsContained ==
    [][(pc = "read" /\ consumed' > consumed)
          => /\ \A i \in 1..Len(active_sinks) :
                  sink_rx'[active_sinks[i]] =
                      sink_rx[active_sinks[i]]
                          \o BlockSamples(ConsumeBlockTimestamps(
                                 next_ts_ns, consumed' - consumed, ts_step))
             /\ raised' = raised
             /\ active_sinks' = active_sinks]_vars

\* C16 witness: the first active sink raised on the first sample it was
\* handed; it and the sink after it have since handled that block and a
\* later one, sample for sample the same.
C16_Witness ==
    /\ Len(active_sinks) = 2
    /\ sink_faults[active_sinks[1]] = 1
    /\ sink_faults[active_sinks[2]] = 0
    /\ Len(sink_rx[active_sinks[1]]) > n_channels * block_size
    /\ sink_rx[active_sinks[2]] = sink_rx[active_sinks[1]]
    /\ raised = "none"
    /\ pc = "loop"

\* ------------------------------------------------------------------------
\* C19: within every block the timestamps start at next_ts_ns and advance
\* by exactly ts_step; when no drift snap occurs the accumulator moves to
\* the block's last timestamp plus ts_step, which is the first timestamp of
\* the next block; with no drift threshold the whole sequence of a channel
\* has a constant step from the initial next_ts_ns.
C19_TimestampsConstantStep ==
    /\ [][(pc = "read" /\ consumed' > consumed)
            => LET n == consumed' - consumed
                   drift == (now' + ts_step) - (next_ts_ns + n * ts_step)
                   snap == drift_threshold_ns # NoneVal /\ Abs(drift) > drift_threshold_ns
               IN  /\ \A s \in OpenedSinks :
                        /\ Len(sink_rx'[s]) = Len(sink_rx[s]) + n_channels * n
                        /\ \A c \in 1..n_channels : \A i \in 1..n :
                             sink_rx'[s][Len(sink_rx[s]) + (c - 1) * n + i]
                                 = <<c, next_ts_ns + (i - 1) * ts_step>>
                   /\ ~snap => next_ts_ns' = next_ts_ns + (n - 1) * ts_step + ts_step]_vars
    /\ [](drift_threshold_ns = NoneVal
            => /\ next_ts_ns = consumed * ts_step
               /\ \A s \in OpenedSinks : \A c \in 1..n_channels :
                    \A i \in 1..Len(sink_rx[s]) :
                      sink_rx[s][i][1] = c
                        => sink_rx[s][i][2] =
                             ts_step * Cardinality({j \in 1..(i - 1) : sink_rx[s][j][1] = c}))

\* C19 witness: with a step of 2 and no drift threshold, four samples per
\* channel were delivered in at least two blocks, stamped 0, 2, 4 and 6.
C19_Witness ==
    /\ ts_step = 2
    /\ drift_threshold_ns = NoneVal
    /\ consumed = 4
    /\ next_ts_ns = 8
    /\ \E s \in OpenedSinks :
         /\ Delivered(s, 1) = 4
         /\ \A k \in 0..3 : InSeq(<<1, 2 * k>>, sink_rx[s])

\* ------------------------------------------------------------------------
\* C17: closing the preview channel always delivers a sentinel, even to a
\* full queue: a sentinel is never among the items evicted, the closing
\* call's forced sentinel is always put at the tail by the loop, a closed
\* channel has a sentinel in a callback, in the queue or with the
\* subscriber, and a subscriber that goes on reading eventually receives
\* one.
C17_CloseDeliversSentinel ==
    /\ [](~InSeq(Sentinel, pq_evicted))
    /\ [][(pq_pending # <<>> /\ pq_pending' = Tail(pq_pending)
              /\ Head(pq_pending) = <<Sentinel, TRUE>>)
            => (pq_queue' # <<>> /\ pq_queue'[Len(pq_queue')] = Sentinel)]_vars
    /\ [](pq_closed => (pq_received \/ InSeq(Sentinel, pq_queue)
                           \/ InSeq(<<Sentinel, TRUE>>, pq_pending)))
    /\ pq_closed ~> pq_received

\* C17 witness: four data blocks filled the queue, the sentinel's put
\* evicted the oldest of them, and the subscriber has since read its way
\* to the sentinel.
C17_Witness ==
    /\ pq_closed
    /\ blocks_broadcast = PreviewMaxsize
    /\ pq_evicted = <<1>>
    /\ pq_sentinels >= 1
    /\ pq_received

\* ------------------------------------------------------------------------
\* C18: at most one preview stream holds a session's queue at a time: the
\* consumer count of every session is 0 or 1 and equals the number of
\* streams holding its queue; an acquire succeeds only for the session in
\* the slot, active after the cleanup, with preview and with no stream
\* outstanding, and an acquire made while a stream holds the queue of the
\* session in the slot fails and changes no count.
C18_AtMostOnePreviewSubscriber ==
    /\ [](\A s \in 1..m_created :
            /\ m_sessions[s].consumers \in {0, 1}
            /\ m_sessions[s].streams = m_sessions[s].consumers
            /\ (m_sessions[s].streams > 0 => m_sessions[s].preview))
    /\ [][\A s \in 1..m_created :
            /\ (m_sessions'[s].streams > m_sessions[s].streams)
                  => /\ s = m_session
                     /\ m_sessions[s].preview
                     /\ SessionIsActive(m_sessions[s])
                     /\ m_sessions[s].streams = 0
                     /\ m_resp' = [op |-> "acquire", code |-> 200]
            /\ (AcquirePreview /\ s = m_session' /\ m_sessions[s].streams > 0)
                  => /\ m_sessions'[s].streams = m_sessions[s].streams
                     /\ m_sessions'[s].consumers = m_sessions[s].consumers
                     /\ m_resp'.code # 200]_vars

\* C18 witness: a stream holds the queue of the active preview session and
\* the acquire made after it was refused.
C18_Witness ==
    /\ m_session # 0
    /\ m_sessions[m_session].preview
    /\ m_sessions[m_session].consumers = 1
    /\ m_sessions[m_session].streams = 1
    /\ m_resp = [op |-> "acquire", code |-> 500]

\* ------------------------------------------------------------------------
\* Helpers over the history of one _send_with_retries call.

\* Number of session.post calls made so far: each yields one outcome.
Posts == Len(responses)

\* A client error outside the retriable set.
FatalClientError(r) == 400 <= r /\ r < 500 /\ r \notin {408, 409, 425, 429}

\* A transient failure: a server error, a retriable client error or a
\* transport exception.
Transient(r) == r = RequestException \/ r >= 500 \/ r \in {408, 409, 425, 429}

\* The first n outcomes were all transient failures.
AllTransient(n) == \A i \in 1..n : Transient(responses[i])

\* ------------------------------------------------------------------------
\* C13: a 4xx response outside {408, 409, 425, 429} ends the send at once:
\* it is the last POST of the call and the batch is reported failed; when
\* it is the first response exactly one call was made, and after a 500
\* followed by a 401 exactly two calls were made whatever max_attempts is.
C13_FatalClientErrorEndsSend ==
    \A i \in 1..Posts :
        FatalClientError(responses[i]) => i = Posts /\ send_result = "false"

\* C13 witness: max_attempts = 3, the server answered 500 then 401 and the
\* send ended failed after two calls.
C13_Witness ==
    /\ max_attempts = 3
    /\ responses = <<500, 401>>
    /\ send_result = "false"

\* ------------------------------------------------------------------------
\* C14: when attempts fail transiently until attempt k first answers below
\* 300, exactly min(k, max_attempts) POSTs are made, exceptions counting
\* as attempts, and the send succeeds exactly when k <= max_attempts.
C14_TransientFailuresAreRetried ==
    /\ Posts <= max_attempts
    /\ \A k \in 1..Posts :
         (AllTransient(k - 1) /\ responses[k] # RequestException /\ responses[k] < 300)
             => (k = Posts /\ send_result = "true")
    /\ (AllTransient(Posts) /\ Posts < max_attempts)
           => (send_result = "none" /\ attempt = Posts + 1 /\ sleeps = Posts)
    /\ (AllTransient(Posts) /\ Posts = max_attempts) => send_result = "false"
    /\ send_result = "true" => (Posts >= 1 /\ AllTransient(Posts - 1))

\* C14 witness: with more than two attempts allowed, an exception and a
\* 503 were followed by a 204 and the send succeeded after three calls.
C14_Witness ==
    /\ max_attempts >= 3
    /\ responses = <<RequestException, 503, 204>>
    /\ send_result = "true"

\* ------------------------------------------------------------------------
\* C20: for every sink a close() that directly follows a close() repeats
\* no observable effect: no file operation and no upload pass.
C20_SecondCloseHasNoEffect ==
    [][(SinkClose /\ fs_last = "close")
          => UNCHANGED <<csv_files, csv_paths, csv_headers, csv_ops, ftp_uploads>>]_vars

\* ------------------------------------------------------------------------
\* C21: once the session's worker thread has ended or stop() has returned,
\* finished_at is set and the status is "finished", "stopped" or "failed".
C21_SummaryIsTerminal ==
    (~ThreadAlive \/ s_pc = "returned")
        => (finished_at /\ status \in {"finished", "stopped", "failed"})

\* C21, the half that holds: an ended worker thread leaves a terminal
\* summary, whatever stop() did meanwhile.
C21_EndedThreadIsTerminal ==
    ~ThreadAlive => (finished_at /\ status \in {"finished", "stopped", "failed"})

\* The blocks 1..n as the runner hands them to the preview channel, one
\* unforced put each.
BlocksHanded(n) == [i \in 1..n |-> <<i, FALSE>>]

\* ------------------------------------------------------------------------
\* C22: in a preview session (test mode) the sink factory is never called
\* and no sink handles a sample; every non-empty block is handed to the
\* preview channel as one block, in the runner's order, and the sentinel
\* follows them when run() ends.
C22_TestModeOnlyPublishes ==
    /\ [](preview_enabled =>
            /\ factory_calls = 0
            /\ \A s \in Sinks : sink_rx[s] = <<>> /\ sink_open[s] = "no"
            /\ pq_pending = BlocksHanded(blocks_broadcast)
                              \o (IF RunEnded THEN <<<<Sentinel, FALSE>>>> ELSE <<>>))
    /\ [][(preview_enabled /\ pc = "read" /\ consumed' > consumed)
             => blocks_broadcast' = blocks_broadcast + 1]_vars

\* C22 witness: a preview session with sinks configured ended after two
\* blocks; the channel was handed block 1, block 2 and the sentinel.
C22_Witness ==
    /\ preview_enabled
    /\ n_sinks > 0
    /\ RunEnded
    /\ pq_pending = <<<<1, FALSE>>, <<2, FALSE>>, <<Sentinel, FALSE>>>>

\* ------------------------------------------------------------------------
\* C23: the preview queue never holds more than its capacity of four items;
\* a put that finds it full removes exactly the oldest item and appends the
\* new one, and the blocks in the queue are in the runner's order.
C23_PreviewQueueBoundedInOrder ==
    /\ [](/\ Len(pq_queue) <= PreviewMaxsize
          /\ \A i, j \in 1..Len(pq_queue) :
                (i < j /\ pq_queue[i] # Sentinel /\ pq_queue[j] # Sentinel)
                    => pq_queue[i] < pq_queue[j])
    /\ [][(/\ pq_pending # <<>>
           /\ pq_pending' = Tail(pq_pending)
           /\ Len(pq_queue) = PreviewMaxsize
           /\ ~(pq_closed /\ ~Head(pq_pending)[2]))
             => /\ pq_queue' = Append(Tail(pq_queue), Head(pq_pending)[1])
                /\ pq_evicted' = Append(pq_evicted, Head(pq_queue))]_vars

\* C23 witness: a fifth block was put on the full queue; block 1 was
\* removed and blocks 2 to 5 remain, in order.
C23_Witness ==
    /\ pq_queue = <<2, 3, 4, 5>>
    /\ pq_evicted = <<1>>

\* ------------------------------------------------------------------------
\* C24: in every upload pass the transfer of each listed file is started,
\* a failed transfer of an earlier file notwithstanding.
C24_FailedTransferDoesNotAbortPass ==
    \A p \in 1..Len(ftp_uploads) : ftp_uploads[p].started = ftp_uploads[p].listed

\* C24, what the code keeps: a pass starts the transfers in list order up
\* to the first one that raises, and none after it.
C24_PassStopsAtFirstFailure ==
    \A p \in 1..Len(ftp_uploads) :
        LET u == ftp_uploads[p]
        IN  /\ u.started = SubSeq(u.listed, 1, Len(u.started))
            /\ (u.failed = NoneVal => u.started = u.listed)
            /\ (u.failed # NoneVal => u.started[Len(u.started)] = u.failed)

\* The rows of key k's file that are header rows.
HeaderRows(k) == {i \in 1..Len(csv_rows[k]) : csv_rows[k][i].header}

\* Every row written for a key has as many cells as the key's stored
\* header.
RowsMatchHeader ==
    \A k \in Keys : \A i \in 1..Len(csv_rows[k]) :
        Len(csv_rows[k][i].cells) = Len(csv_stored[k])

\* The file of every key that has rows starts with the stored header, and
\* holds no other header row.
HeaderOnceFirst ==
    \A k \in Keys :
        csv_rows[k] # <<>>
            => /\ HeaderRows(k) = {1}
               /\ csv_rows[k][1].cells = csv_stored[k]

\* A step that writes to key k's file: a stored header stays as it is, a
\* first sample fixes it to its own columns, and the row written last has
\* the value of each header column the sample carries and a blank for each
\* it does not.
RowWritten(k) ==
    \E fields \in SampleFields :
        LET row == csv_rows'[k][Len(csv_rows'[k])]
        IN  /\ csv_stored'[k] = IF csv_stored[k] = <<>> THEN PrepareRowHeaders(fields)
                                                       ELSE csv_stored[k]
            /\ ~row.header
            /\ Len(row.cells) = Len(csv_stored'[k])
            /\ \A i \in 1..Len(row.cells) :
                  row.cells[i] = IF InSeq(csv_stored'[k][i], PrepareRowHeaders(fields))
                                   THEN csv_stored'[k][i] ELSE ""
            /\ Len(csv_rows'[k]) = Len(csv_rows[k]) + (IF csv_rows[k] = <<>> THEN 2 ELSE 1)

LimitReached ==
    /\ st_max # NoneVal
    /\ st_frames > 0
    /\ st_last[Len(st_last)] - st_first >= st_max

\* ------------------------------------------------------------------------
\* C26: stream_preview yields no frame once it has received the sentinel;
\* with a duration limit it stops right after the first frame whose last
\* timestamp is at least the limit past the first timestamp emitted, and
\* not before; in both cases the stream ends.
C26_StreamStopsOnSentinelOrLimit ==
    /\ [](/\ (st_end = "sentinel" \/ st_end = "duration") <=> st_pc = "done"
          /\ (st_pc = "get" => ~LimitReached)
          /\ (st_end = "duration" => LimitReached)
          /\ (st_max = NoneVal => st_end # "duration"))
    /\ [][/\ (st_pc = "done" => st_frames' = st_frames /\ st_pc' = "done")
          /\ (st_pc = "get" /\ st_queue # <<>> /\ Head(st_queue).none
                /\ st_queue' = Tail(st_queue))
                => (st_pc' = "done" /\ st_frames' = st_frames)
          /\ (st_pc = "yielded" /\ LimitReached /\ st_pc' # "yielded")
                => (st_pc' = "done" /\ st_queue' = st_queue)]_vars
    /\ ((st_pc = "get" /\ st_queue # <<>> /\ Head(st_queue).none)
          \/ (st_pc = "yielded" /\ LimitReached))
            ~> (st_pc = "done")

\* C26 witness: with a limit, a first frame short of it was followed by a
\* frame that reached it, and the stream stopped with an item still in the
\* queue.
C26_Witness ==
    /\ st_end = "duration"
    /\ st_frames = 2
    /\ st_queue # <<>>
    /\ st_last[Len(st_last)] - st_first = st_max

\* ------------------------------------------------------------------------
\* C27: a station file with a sample rate or block size that is not
\* positive, with two channels of one index, or with channels of different
\* voltage ranges is rejected when loaded, and no session starts with it.
C27_InvalidStationIsRejectedAtLoad ==
    (\/ ld_rate <= 0
     \/ ld_block <= 0
     \/ DuplicateIndex(ld_channels)
     \/ MixedRanges(ld_channels))
        => (ld_result # "loaded" /\ ld_session = "none")

\* C27, what the code keeps: the first three are rejected when the file is
\* loaded; mixed ranges are loaded, the session starts, and it fails when
\* run() reaches start_scan.
C27_MixedRangesFailAtScan ==
    /\ (ld_rate <= 0 \/ ld_block <= 0 \/ DuplicateIndex(ld_channels))
          => (ld_result # "loaded" /\ ld_session = "none")
    /\ MixedRanges(ld_channels) => ld_session # "scanning"

\* The tag keys of the line, in the order they appear.
LineTagKeys == [i \in 1..Len(ln_line.tags) |-> ln_line.tags[i][1]]

\* The value of tag `key` in the line.
LineTag(key) == ln_line.tags[CHOOSE i \in 1..Len(ln_line.tags) : ln_line.tags[i][1] = key][2]

\* ------------------------------------------------------------------------
\* C28: the line of a runner sample is the measurement lvdt, then exactly
\* the tags canal, pi, sensor and unidad in that order, then the field
\* valor, then the sample's timestamp in nanoseconds.
C28_LineHasDocumentedForm ==
    ln_done =>
        /\ ln_line.measurement = "lvdt"
        /\ LineTagKeys = <<"canal", "pi", "sensor", "unidad">>
        /\ ln_line.fields = <<<<"valor", <<"float", ln_sample.value>>>>>>
        /\ ln_line.ts = ln_sample.ts

\* C28, what the code produces: the same line with a fifth tag, channel,
\* equal to canal, in its sorted place.
C28_LineCarriesChannelTag ==
    ln_done =>
        /\ ln_line.measurement = "lvdt"
        /\ LineTagKeys = <<"canal", "channel", "pi", "sensor", "unidad">>
        /\ LineTag("canal") = ln_sample.index
        /\ LineTag("channel") = ln_sample.index
        /\ LineTag("pi") = ln_sample.station
        /\ LineTag("sensor") = ln_sample.name
        /\ LineTag("unidad") = ln_sample.unit
        /\ ln_line.fields = <<<<"valor", <<"float", ln_sample.value>>>>>>
        /\ ln_line.ts = ln_sample.ts

\* ------------------------------------------------------------------------
\* C29: after each delivered block next_ts_ns becomes the capture time plus
\* ts_step when a drift threshold is configured and the drift exceeds it,
\* and otherwise the previous next_ts_ns plus block_len * ts_step; nothing
\* else moves it once the scan has started, so without a threshold it is
\* never re-anchored to the clock.
C29_OnlyDriftThresholdReanchors ==
    [][/\ (pc = "read" /\ consumed' > consumed)
            => LET candidate == next_ts_ns + (consumed' - consumed) * ts_step
                   expected == now' + ts_step
               IN  IF drift_threshold_ns # NoneVal
                        /\ Abs(expected - candidate) > drift_threshold_ns
                     THEN next_ts_ns' = expected
                     ELSE next_ts_ns' = candidate
       /\ (pc # "start_scan" /\ consumed' = consumed) => next_ts_ns' = next_ts_ns
       /\ (pc # "start_scan" /\ drift_threshold_ns = NoneVal)
            => next_ts_ns' - consumed' * ts_step = next_ts_ns - consumed * ts_step]_vars

\* C29 witness: with a threshold, a block was stamped ahead of the clock
\* and next_ts_ns was snapped back to the capture time plus one step.
C29_Witness ==
    /\ drift_threshold_ns # NoneVal
    /\ pc = "loop"
    /\ consumed > 0
    /\ next_ts_ns = now + ts_step
    /\ next_ts_ns < consumed * ts_step

\* ------------------------------------------------------------------------
\* C30: when an enqueue found the queue full and the worker emptied it
\* before the eviction, the eviction finds the queue empty, the new line is
\* dropped with a warning and not enqueued, and no other line is lost: the
\* lines that were queued when the call began are all with the worker.
C30_EmptiedQueueDropsNewLine ==
    [][(enq_pc = "drop" /\ q = <<>> /\ enq_pc' # "drop")
          => /\ enq_pc' = "idle"
             /\ q' = <<>>
             /\ dropped' = Append(dropped, enq_line)
             /\ enq_warnings' = enq_warnings + 1
             /\ \A i \in 1..Len(enq_start) :
                   /\ ~InSeq(enq_start[i], dropped')
                   /\ \/ InSeq(enq_start[i], lines')
                      \/ InSeq(enq_start[i], sent')
                      \/ InSeq(enq_start[i], failed')]_vars

\* C30 witness: a call that began on a full queue of two or more lines has
\* returned; the worker had taken every line meanwhile, the new line was
\* dropped with one warning and the queue is empty.
C30_Witness ==
    /\ enq_pc = "idle"
    /\ queue_max_size >= 2
    /\ Len(enq_start) = queue_max_size
    /\ enq_touched
    /\ q = <<>>
    /\ enq_warnings = 1
    /\ dropped # <<>>
    /\ dropped[Len(dropped)] = produced

\* ------------------------------------------------------------------------
\* Lines are numbered in the order enqueue() received them, so FIFO order
\* is increasing order.
Increasing(s) == \A i, j \in 1..Len(s) : i < j => s[i] < s[j]

\* The lines of the batches the worker has finished with.
Handled == {sent[i] : i \in 1..Len(sent)} \cup {failed[i] : i \in 1..Len(failed)}

\* C31: every batch handed to _send_with_retries holds between 1 and
\* batch_size lines; within the batch, and from batch to batch, the lines
\* are in the order they were enqueued; no line is in two batches and no
\* evicted line is in a batch.
C31_BatchesBoundedAndFifo ==
    /\ Len(lines) <= batch_size
    /\ w_pc \in {"drain", "send"} => Len(lines) >= 1
    /\ Increasing(lines)
    /\ Increasing(sent)
    /\ Increasing(failed)
    /\ \A i \in 1..Len(lines) :
          /\ \A h \in Handled : h < lines[i]
          /\ ~InSeq(lines[i], dropped)
    /\ \A h \in Handled : ~InSeq(h, dropped)
    /\ \A i \in 1..Len(sent) : ~InSeq(sent[i], failed)

\* C31 witness: a full batch of two or more lines is about to be sent after
\* an earlier batch went out and after the overflow policy evicted a line.
C31_Witness ==
    /\ w_pc = "send"
    /\ batch_size >= 2
    /\ Len(lines) = batch_size
    /\ sent # <<>>
    /\ dropped # <<>>
    /\ q # <<>>

\* ------------------------------------------------------------------------
\* C32: for every attempt >= 1 the delay of _compute_backoff is at most
\* max_backoff whenever max_backoff is set, 0 included, is never negative,
\* and is 0 whenever base_delay is 0.
C32_DelayWithinBackoff ==
    bk_attempt >= 1 =>
       /\ max_backoff # NoneVal => bk_total <= max_backoff
       /\ bk_total >= 0
       /\ base_backoff = 0 => bk_total = 0

\* What holds of the delay: the bound applies when max_backoff is a positive
\* number; the delay is never negative and is 0 for base_delay = 0.
C32_DelayWithinPositiveBackoff ==
    bk_attempt >= 1 =>
       /\ max_backoff > 0 => bk_total <= max_backoff
       /\ bk_total >= 0
       /\ base_backoff = 0 => bk_total = 0

\* ------------------------------------------------------------------------
\* start_session would answer 202 now.
StartAccepted == ENABLED (StartSession /\ m_resp'.code = 202)

\* C33: a stop_session that found an active session always returns, whether
\* or not the runner thread ever leaves run(): when it returns the session
\* is the last summary and the slot is empty, and from then on a
\* start_session is accepted.
C33_StopSessionAlwaysReturns ==
    /\ (m_lock # "free") ~> (m_lock = "free" /\ m_resp = [op |-> "stop", code |-> 200])
    /\ [][(m_lock = "stop_end" /\ m_lock' = "free")
             => /\ m_session' = 0
                /\ m_last_summary' = Info(m_session, m_sessions[m_session])
                /\ m_last_summary'.finished_at]_vars
    /\ [](m_resp = [op |-> "stop", code |-> 200]
             => /\ m_session = 0
                /\ m_lock = "free"
                /\ m_created < MaxSessions => StartAccepted)

\* C33 witness: stop_session has returned while the session's thread is
\* still inside run(); the session is the last summary, recorded as
\* stopped, and the slot is empty.
C33_Witness ==
    /\ m_resp = [op |-> "stop", code |-> 200]
    /\ m_created = 1
    /\ m_sessions[1].thread = "run"
    /\ m_session = 0
    /\ m_last_summary.id = 1
    /\ m_last_summary.status = "stopped"

\* ------------------------------------------------------------------------
\* The sinks whose open() raised.
FailedSinks == {s \in Sinks : sink_open[s] = "failed"}

\* The ways the scan loop is left.
LoopExits == {"stop", "deadline", "budget", "deadline_after_block", "read_failed"}

\* C34: a sink whose open() raised is not active: it handles no sample and
\* is never closed; the sinks whose open() returned are the active ones
\* until the shutdown, each handles every block and is closed once; with
\* every open() failed the scan loop still reads and timestamps blocks,
\* dispatches nothing, and is left only by a stop request, the budget, the
\* deadline or an error.
C34_FailedOpenLeavesSinkOut ==
    /\ [](\A s \in FailedSinks :
             /\ ~InSeq(s, active_sinks)
             /\ sink_rx[s] = <<>>
             /\ sink_closed[s] = 0)
    /\ [](\A s \in OpenedSinks :
             /\ pc \in {"open_board", "start_scan", "loop", "read", "run_finally"}
                   => InSeq(s, active_sinks)
             /\ RunEnded => sink_closed[s] = 1)
    /\ [][(pc = "read" /\ consumed' > consumed)
             => \A s \in Sinks :
                   sink_rx'[s] =
                      IF s \in OpenedSinks
                        THEN sink_rx[s] \o BlockSamples(ConsumeBlockTimestamps(
                                              next_ts_ns, consumed' - consumed, ts_step))
                        ELSE sink_rx[s]]_vars
    /\ [][(pc \in {"loop", "read"} /\ active_sinks = <<>> /\ pc' \notin {"loop", "read"})
             => /\ pc' = "run_finally"
                /\ exit_reason' \in LoopExits]_vars

\* C34 witness: both sinks of the factory failed to open; the loop has read
\* and timestamped a block all the same and goes on; no sink got a sample.
C34_Witness ==
    /\ n_sinks = 2
    /\ FailedSinks = {1, 2}
    /\ active_sinks = <<>>
    /\ pc = "loop"
    /\ consumed > 0
    /\ \A s \in Sinks : sink_rx[s] = <<>> /\ sink_closed[s] = 0

\* ------------------------------------------------------------------------
\* Line x has been handed to _send_with_retries: it is in a batch that was
\* sent or failed, or in the batch being sent.
Posted(x) == InSeq(x, sent) \/ InSeq(x, failed) \/ (w_pc = "send" /\ InSeq(x, lines))

\* C35: once close() has set the stop flag the worker finishes at most the
\* batch it had dequeued: no line that was in the queue at that moment is
\* ever POSTed; and close() returns only after the worker has exited.
C35_CloseStopsWorker ==
    /\ stop => \A i \in 1..Len(close_queue) : ~Posted(close_queue[i])
    /\ close_returned => w_pc = "exit"

\* What holds of close(): it returns only after the worker has exited, with
\* no batch in hand; and the worker takes at most batch_size of the lines
\* that were queued when the flag was set.
C35_CloseJoinsWorker ==
    /\ close_returned => (w_pc = "exit" /\ lines = <<>>)
    /\ stop => Cardinality({i \in 1..Len(close_queue) : Posted(close_queue[i])})
                  <= batch_size

\* ------------------------------------------------------------------------
\* The deadline and the budget of the loop are those of the settings in the
\* timed modes, test mode included, and absent in continuous mode.
LimitsFollowMode ==
    pc \in {"loop", "read"} =>
       /\ deadline_ns # NoneVal <=> (ActualMode # "continuous" /\ duration_ns # NoneVal)
       /\ remaining_samples # NoneVal
             <=> (ActualMode # "continuous" /\ total_samples # NoneVal)
       /\ remaining_samples # NoneVal
             => (remaining_samples > 0 /\ remaining_samples = total_samples - consumed)

\* A preview session runs in test mode whatever mode was requested, and a
\* run that the deadline or the budget ended was in a timed mode with that
\* limit configured.
LimitsEndTimedRuns ==
    /\ (preview_enabled /\ pc \in {"open_board", "start_scan", "loop", "read", "run_finally"})
          => (ActualMode = "test" /\ test_mode_active)
    /\ exit_reason \in {"deadline", "deadline_after_block"}
          => (ActualMode # "continuous" /\ duration_ns # NoneVal)
    /\ exit_reason = "budget" => (ActualMode # "continuous" /\ total_samples # NoneVal)

\* C36 as stated: the deadline and the budget apply only in timed and test
\* modes; in continuous mode run() ends only through request_stop or an
\* error; a session with mode = continuous and preview = true runs in test
\* mode and is ended by duration_s or total_samples when configured.
C36_LimitsOnlyInTimedModes ==
    /\ LimitsFollowMode
    /\ LimitsEndTimedRuns
    /\ (ActualMode = "continuous" /\ RunEnded)
          => (exit_reason = "stop" \/ raised # "none")

\* C36 amended: in continuous mode run() ends only through request_stop or
\* an error, or at once when the station has no channel.
C36_LimitsOnlyInTimedModesWithChannels ==
    /\ LimitsFollowMode
    /\ LimitsEndTimedRuns
    /\ (ActualMode = "continuous" /\ RunEnded)
          => (exit_reason \in {"stop", "no_channels"} \/ raised # "none")
    /\ exit_reason = "no_channels" => (n_channels = 0 /\ consumed = 0)

\* C36 witness: a session requested as continuous with preview has run in
\* test mode and the sample budget ended it.
C36_Witness ==
    /\ preview_enabled
    /\ mode = "continuous"
    /\ total_samples # NoneVal
    /\ RunEnded
    /\ exit_reason = "budget"
    /\ consumed = total_samples

\* ------------------------------------------------------------------------
\* The loop runs the oldest callback, and it is the put of a data block.
RunsDataPut ==
    /\ pq_pending # <<>>
    /\ pq_pending' = Tail(pq_pending)
    /\ Head(pq_pending)[1] # Sentinel

\* C37: no data block enters the preview queue once a sentinel has entered
\* it, however the runner's put_nowait calls, stop()'s close() and the
\* thread's final close() interleave: the put of a block that the loop runs
\* after close() is discarded, and in the queue no block follows a sentinel.
C37_NoBlockAfterSentinel ==
    /\ [][(RunsDataPut /\ pq_queue' # pq_queue) => (pq_sentinels = 0 /\ ~pq_closed)]_vars
    /\ [][(RunsDataPut /\ pq_closed)
             => UNCHANGED <<pq_queue, pq_sentinels, pq_evicted>>]_vars
    /\ [](\A i, j \in 1..Len(pq_queue) :
             (i < j /\ pq_queue[i] = Sentinel) => pq_queue[j] = Sentinel)
    /\ [](pq_sentinels > 0 => pq_closed \/ RunEnded)

\* C37 witness: stop() has closed the queue while the runner is still in
\* its loop; the put of block 2, scheduled before the close, is next in the
\* loop's callbacks with the forced sentinel behind it, and block 1 is in
\* the queue.
C37_Witness ==
    /\ pq_closed
    /\ s_pc = "request"
    /\ pc \in {"loop", "read"}
    /\ pq_pending = <<<<2, FALSE>>, <<Sentinel, TRUE>>>>
    /\ pq_queue = <<1>>

\* ------------------------------------------------------------------------
\* The step of session_status that builds the response after last_session().
AnswersLast == gs_pc = "between" /\ gs_pc' = "done"

\* C38: when no start_session completed between the two manager calls of
\* session_status, the call of last_session() finds the slot empty and the
\* response carries the last summary, which is that of the latest session
\* if there ever was one; when current_session() finds an active session
\* the response is that session; the response {active: false,
\* last_session: null} with a session in the slot arises only when a
\* start_session completed between the two calls.
C38_StatusReadsTwice ==
    /\ [][(AnswersLast /\ m_created = gs_created)
             => /\ m_session' = 0
                /\ ~gs_resp'.active
                /\ gs_resp'.info = m_last_summary'
                /\ m_created > 0 => gs_resp'.info.id = m_created]_vars
    /\ [][(AnswersLast /\ m_session' # 0)
             => /\ m_created > gs_created
                /\ gs_resp' = [active |-> FALSE, info |-> NoSummary]]_vars
    /\ [][(gs_pc = "idle" /\ gs_pc' = "done")
             => /\ m_session' # 0
                /\ gs_resp' = [active |-> TRUE,
                               info |-> Info(m_session', m_sessions'[m_session'])]]_vars

\* C38 witness: the response is {active: false, last_session: null} while
\* the session that start_session created between the two calls is in the
\* slot with its thread inside run().
C38_Witness ==
    /\ gs_pc = "done"
    /\ gs_resp = [active |-> FALSE, info |-> NoSummary]
    /\ m_created = gs_created + 1
    /\ m_session = m_created
    /\ m_sessions[m_session].thread = "run"
    /\ m_sessions[m_session].status = "running"

\* ------------------------------------------------------------------------
\* The next step of the thread of session s.
ThreadStep(s) ==
    \/ ManagerThreadBegin(s)
    \/ ManagerThreadRunEnds(s)
    \/ ManagerThreadFinally(s)
    \/ ManagerThreadSetEvent(s)
    \/ ManagerThreadExit(s)

\* The positions of a stop_session holding the lock, in order.
LockRank(l) ==
    CASE l = "stop_close" -> 5
      [] l = "stop_wait" -> 4
      [] l = "stop_join" -> 3
      [] l = "stop_finalize" -> 2
      [] l = "stop_end" -> 1
      [] OTHER -> 0

\* C39: no interleaving of start_session, stop_session, acquire_preview,
\* release_preview and the session threads deadlocks: a stop_session that
\* holds the lock can always take its next step, whatever the threads do,
\* and each step brings it nearer to releasing the lock; a live thread can
\* always take its next step, whoever holds the lock; and with the lock
\* free every call that waits for it can proceed.
C39_NoDeadlock ==
    /\ [](m_lock # "free" => ENABLED StopStep)
    /\ [][m_lock # "free" => LockRank(m_lock') < LockRank(m_lock)
                                \/ m_lock' = m_lock]_vars
    /\ [](\A s \in 1..m_created : Alive(m_sessions[s]) => ENABLED ThreadStep(s))
    /\ [](m_lock = "free"
             => /\ ENABLED StartSession
                /\ ENABLED StopSessionBegin
                /\ ENABLED AcquirePreview
                /\ \A s \in 1..m_created :
                      m_sessions[s].streams > 0 => ENABLED ReleasePreview(s))

\* C39 witness: stop_session holds the lock in its join while the thread is
\* inside run() and a preview stream of the session still holds the queue,
\* the release of which will need the lock.
C39_Witness ==
    /\ m_lock = "stop_join"
    /\ m_sessions[m_session].thread = "run"
    /\ m_sessions[m_session].streams = 1
    /\ m_sessions[m_session].pq_closed

\* ------------------------------------------------------------------------
\* The thread is inside runner.run or has yet to record its outcome.
ThreadStillRunning == pc \in {"run_enter", "open_board", "start_scan", "loop", "read",
                              "run_finally", "t_after_run"}

\* The last step of stop(), after which stop_session reads the summary.
StopReturns == s_pc = "finalize" /\ s_pc' = "returned"

\* C40: when the event wait of stop() returns because the thread set the
\* event, the status is already finished, or failed if run() raised, and the
\* summary keeps it; the summary says stopped only when the status was still
\* running at the end of stop(), that is when the event was never set and
\* the thread had not yet recorded the outcome of run().
C40_StoppedOnlyAfterTimeout ==
    /\ [][(s_pc = "wait" /\ s_pc' = "join" /\ stop_event)
             => /\ status \in {"finished", "failed"}
                /\ status = "failed" <=> raised # "none"]_vars
    /\ [][(StopReturns /\ stop_event)
             => /\ status' = status
                /\ status' \in {"finished", "failed"}
                /\ status' = "failed" <=> raised # "none"]_vars
    /\ [][(StopReturns /\ status' = "stopped")
             => /\ status = "running"
                /\ ~stop_event
                /\ ThreadStillRunning]_vars
    /\ [](s_pc # "returned" => status # "stopped")

\* C40 witness: stop() was called on a running session, the runner saw the
\* stop request and returned normally, the thread set the event, and stop()
\* has returned with the status finished.
C40_Witness ==
    /\ s_pc = "returned"
    /\ exit_reason = "stop"
    /\ raised = "none"
    /\ stop_event
    /\ status = "finished"
    /\ consumed > 0

====
